---- MODULE Spec2Model ----
(***************************************************************************)
(* pakserve: the PAK archive codec (package pak: Reader and Writer) and    *)
(* the HTTP server built on it (scanner, route resolution, delivery,       *)
(* reload on SIGHUP).                                                      *)
(*                                                                         *)
(* Strings are sequences of byte values.  A file image is kept in three    *)
(* parts: the header bytes, the content region as run-length encoded       *)
(* bytes (so that archives close to 2 GiB stay small in the model) and     *)
(* the directory records that follow it; ImgByte gives the byte at any     *)
(* offset of the image.                                                    *)
(***************************************************************************)
EXTENDS Integers, Sequences, FiniteSets, TLC

VARIABLES
    \* pak.Writer
    files,      \* Writer.files: the directory entries created so far
    offset,     \* Writer.offset: the write cursor
    closed,     \* Writer.closed
    isFile,     \* Writer.isFile: created by OpenWriter
    w,          \* Writer.w: the underlying io.WriteSeeker (image, position, open)
    ret,        \* the last Writer call: its name, len(name) or len(p), and what it returned
    \* the caller of the Writer (TestReadWrite)
    want,       \* per created entry: name, true cursor at Create, bytes accepted, chunks asked
    drv,        \* whether the calls so far are Create, Write, Create, Write, ...
    fault,      \* whether the underlying writer has failed a call
    left,       \* calls the caller may still make
    \* pak.Reader
    arc,        \* the archive handed to NewReader / OpenReader
    rd,         \* result of NewReader / OpenReader: error and File list
    ext,        \* pakutil -x: the loop of extract over pak.File, the files it made
    \* the server (package main)
    config,      \* Config: SearchPaths, PakBlackList, DirWhiteList (compiled)
    disk,        \* the directories of the search paths: listing order and files
    searchPaths, \* searchPaths: the routing table, a list of CompiledSearchPath
    dirCache,    \* dirCache: directory name -> []SearchPath of the running build
    mutex,       \* searchPathsMutex: writer flag, readers, waiting writer
    reload,      \* the goroutine of waitForSignal / scanSearchPaths
    sig,         \* signals buffered in the channel of waitForSignal
    reqs,        \* the requests being handled, one goroutine each
    hist,        \* the complete tables that scanSearchPaths has built so far
    heap         \* the slices and maps of the tables as objects in memory

pakVars == <<files, offset, closed, isFile, w, ret, want, drv, fault, left>>

rdVars == <<arc, rd, ext>>

srvVars == <<config, disk, searchPaths, dirCache, mutex, reload, sig, reqs, hist, heap>>

vars == <<pakVars, rdVars, srvVars>>

\* no object allocated: the memory of the tables is not followed
NoHeap ==
    [ obj |-> <<>>, table |-> [at |-> 0, len |-> 0, cap |-> 0], cache |-> 0, pc |-> "off",
      held |-> <<>>, pub |-> <<>> ]

\* package main not running: the state of a program that only uses package pak
IdleServer ==
    /\ heap = NoHeap
    /\ config = [ SearchPaths |-> <<>>, PakBlackList |-> <<>>, DirWhiteList |-> <<>>,
                  RefererCheck |-> [anchored |-> FALSE, alts |-> << <<>> >>],
                  ContentType |-> "application/octet-stream" ]
    /\ disk = <<>>
    /\ searchPaths = <<>>
    /\ dirCache = <<>>
    /\ mutex = [w |-> FALSE, r |-> 0, waiting |-> FALSE]
    /\ reload = [pc |-> "off", owed |-> FALSE, heard |-> FALSE, dropped |-> FALSE]
    /\ sig = 0
    /\ reqs = <<>>
    /\ hist = <<>>

(***************************************************************************)
(* Constants of package pak.                                               *)
(***************************************************************************)
headerSize == 12
entrySize == 64
MaxFiles == 4096
MaxFileName == 56
MaxOffset == 2147483647

\* 'P' | 'A'<<8 | 'C'<<16 | 'K'<<24, as a 32-bit value (see Wide below)
pakIdent == [h |-> 67 + 75 * 256, l |-> 80 + 65 * 256]

errBadIdent == "pak: bad ident"
errBadDirLen == "pak: bad directory length"
errBadDirOfs == "pak: bad directory offset"
errBadFileLen == "pak: bad file length"
errBadFilePos == "pak: bad file position"
errTooManyFiles == "pak: too many files"
errNameTooLong == "pak: file name too long"
errAlreadyClosed == "pak: already closed"
errFileNotOpen == "pak: file not open"
errFileTooBig == "pak: file too big"
\* errors of the io layer
errEOF == "unexpected EOF"
errIO == "io: write failed"
nil == ""

\* waitForSignal: make(chan os.Signal, 1)
sigBuffer == 1

(***************************************************************************)
(* Bounds of the model.                                                    *)
(***************************************************************************)
\* entries in the small directories given to the Reader
MaxDir == 2
\* names in a listed directory
MaxNames == 3
\* bytes of an entry name given to normalizeName
MaxNameLen == 4
\* tables built in a run: the one of startup and those of reloads
MaxScans == 2
\* rescans for which waitForSignal takes a signal, where signals may find the
\* channel full
MaxRescans == 2
\* routes of a configuration
MaxRoutes == 2
\* bytes of a generated request path after its first '/'
MaxPathLen == 3
\* requests handled in a run
MaxReqs == 1
\* calls explored on a writer that starts empty
MaxOps == 5
\* calls explored on a writer that starts with a nearly full directory
FullOps == 3
\* the nearly full directories start with MaxFiles - FullSlack .. MaxFiles entries
FullSlack == 1

(***************************************************************************)
(* Integers of Go.  An int that stays below 2^31 is an integer of the      *)
(* model.  A uint32, and an int64 computed from one, is kept in two        *)
(* 16-bit halves, [h, l] for h * 2^16 + l with l in 0..65535, so that all  *)
(* 32-bit values and their wraparound are in the model; h < 0 for a        *)
(* negative value.                                                         *)
(***************************************************************************)
Wide(x) == [h |-> x \div 65536, l |-> x % 65536]

WAdd(a, b) == [h |-> a.h + b.h + (a.l + b.l) \div 65536, l |-> (a.l + b.l) % 65536]

WSub(a, b) == [h |-> a.h - b.h + (a.l - b.l) \div 65536, l |-> (a.l - b.l) % 65536]

WLess(a, b) == a.h < b.h \/ (a.h = b.h /\ a.l < b.l)

\* the value as an integer of the model, where it is below 2^31
WVal(a) == a.h * 65536 + a.l

\* conversion to uint32
U32(a) == [h |-> a.h % 65536, l |-> a.l]

\* a % m and a / m for a power of two m <= 2^16
WMod(a, m) == a.l % m

WDiv(a, m) == [h |-> a.h \div m, l |-> (a.h % m) * (65536 \div m) + a.l \div m]

\* binary.LittleEndian
LE32(v) == << v.l % 256, v.l \div 256, v.h % 256, (v.h \div 256) % 256 >>

Dec32(b) == [h |-> b[3] + 256 * b[4], l |-> b[1] + 256 * b[2]]

Min(a, b) == IF a < b THEN a ELSE b

Rep(b, n) == [i \in 1..n |-> b]

(***************************************************************************)
(* Run-length encoded byte strings: a sequence of [b, n] with n > 0 and no *)
(* two neighbours with the same byte, so equal strings have equal forms.   *)
(***************************************************************************)
RECURSIVE RunsLen(_)
RunsLen(r) == IF r = <<>> THEN 0 ELSE r[1].n + RunsLen(Tail(r))

AppendRuns(a, b) ==
    IF a = <<>> THEN b
    ELSE IF b = <<>> THEN a
    ELSE IF a[Len(a)].b = b[1].b
         THEN SubSeq(a, 1, Len(a) - 1)
              \o << [b |-> b[1].b, n |-> a[Len(a)].n + b[1].n] >>
              \o Tail(b)
         ELSE a \o b

RECURSIVE TakeRuns(_, _)
TakeRuns(r, k) ==
    IF k <= 0 \/ r = <<>> THEN <<>>
    ELSE IF r[1].n >= k THEN << [b |-> r[1].b, n |-> k] >>
    ELSE << r[1] >> \o TakeRuns(Tail(r), k - r[1].n)

RECURSIVE DropRuns(_, _)
DropRuns(r, k) ==
    IF k <= 0 \/ r = <<>> THEN r
    ELSE IF r[1].n > k THEN << [b |-> r[1].b, n |-> r[1].n - k] >> \o Tail(r)
    ELSE DropRuns(Tail(r), k - r[1].n)

SliceRuns(r, from, len) == TakeRuns(DropRuns(r, from), len)

RECURSIVE RunByte(_, _)
RunByte(r, k) == IF k < r[1].n THEN r[1].b ELSE RunByte(Tail(r), k - r[1].n)

RECURSIVE ToRuns(_)
ToRuns(s) ==
    IF s = <<>> THEN <<>>
    ELSE AppendRuns(<< [b |-> s[1], n |-> 1] >>, ToRuns(Tail(s)))

(***************************************************************************)
(* pakEntry and its 64-byte record.  Name holds the [56]byte array up to   *)
(* its last non-zero byte; the zero bytes after it are implied.            *)
(***************************************************************************)
RECURSIVE StripZeros(_)
StripZeros(s) ==
    IF s = <<>> THEN s
    ELSE IF s[Len(s)] = 0 THEN StripZeros(SubSeq(s, 1, Len(s) - 1))
    ELSE s

\* copy(entry.Name[:], name)
NameField(name) == StripZeros(SubSeq(name, 1, Min(Len(name), MaxFileName)))

EntryByte(e, k) ==
    IF k < Len(e.Name) THEN e.Name[k + 1]
    ELSE IF k < MaxFileName THEN 0
    ELSE IF k < MaxFileName + 4 THEN LE32(e.Filepos)[k - MaxFileName + 1]
    ELSE LE32(e.Filelen)[k - MaxFileName - 3]

(***************************************************************************)
(* File images.  hdr: the bytes at offset 0; body: the runs that follow;   *)
(* dir: the directory records after the body, of which the first dirLen    *)
(* bytes are in the file.                                                  *)
(***************************************************************************)
ImgSize(img) == Len(img.hdr) + RunsLen(img.body) + img.dirLen

ImgByte(img, o) ==
    LET h == Len(img.hdr)
        b == RunsLen(img.body)
    IN  IF o < h THEN img.hdr[o + 1]
        ELSE IF o < h + b THEN RunByte(img.body, o - h)
        ELSE EntryByte(img.dir[((o - h - b) \div entrySize) + 1], (o - h - b) % entrySize)

\* the bytes [from, to) of the image, run-length encoded
ImgRuns(img, from, to) ==
    LET h == Len(img.hdr)
        b == RunsLen(img.body)
        lit(lo, hi) == ToRuns([i \in 1..(hi - lo) |-> ImgByte(img, lo + i - 1)])
        p1 == IF from < Min(to, h) THEN lit(from, Min(to, h)) ELSE <<>>
        lo2 == IF from > h THEN from ELSE h
        hi2 == Min(to, h + b)
        p2 == IF lo2 < hi2 THEN SliceRuns(img.body, lo2 - h, hi2 - lo2) ELSE <<>>
        lo3 == IF from > h + b THEN from ELSE h + b
        p3 == IF lo3 < to THEN lit(lo3, to) ELSE <<>>
    IN  AppendRuns(AppendRuns(p1, p2), p3)

(***************************************************************************)
(* pak.Reader                                                              *)
(***************************************************************************)
\* a name scan that gives up one byte before the end of the field
RECURSIVE NameEndShort(_, _, _)
NameEndShort(img, at, k) ==
    IF k >= MaxFileName - 1 THEN MaxFileName - 1
    ELSE IF ImgByte(img, at + k) = 0 THEN k
    ELSE NameEndShort(img, at, k + 1)

\* bytes.IndexByte(entry.Name[:], 0), or len(entry.Name) when there is none
RECURSIVE NameEnd(_, _, _)
NameEnd(img, at, k) ==
    IF k >= MaxFileName THEN MaxFileName
    ELSE IF ImgByte(img, at + k) = 0 THEN k
    ELSE NameEnd(img, at, k + 1)

\* binary.Read of one pakEntry at offset at, and the File made of it
ReadEntry(img, at) ==
    [ Name |-> [i \in 1..NameEnd(img, at, 0) |-> ImgByte(img, at + i - 1)],
      Filepos |-> Dec32([i \in 1..4 |-> ImgByte(img, at + MaxFileName + i - 1)]),
      Filelen |-> Dec32([i \in 1..4 |-> ImgByte(img, at + MaxFileName + 4 + i - 1)]) ]

BadDirLen(h) == WMod(h.Dirlen, entrySize) # 0

\* numFiles := int(header.Dirlen / entrySize); numFiles > MaxFiles
TooManyFiles(h) == WLess(Wide(MaxFiles), WDiv(h.Dirlen, entrySize))

\* header.Dirofs > MaxOffset-header.Dirlen, in uint32
BadDirOfs(h) == WLess(U32(WSub(Wide(MaxOffset), h.Dirlen)), h.Dirofs)

\* a Reader without the check of the length alone
BadFileLenNever(e) == FALSE

\* entry.Filelen > MaxOffset
BadFileLen(e) == WLess(Wide(MaxOffset), e.Filelen)

\* entry.Filepos > MaxOffset-entry.Filelen, in uint32
BadFilePos(e) == WLess(U32(WSub(Wide(MaxOffset), e.Filelen)), e.Filepos)

NoReader(err) == [err |-> err, File |-> <<>>, lim |-> 0]

\* Reader.init over io.NewSectionReader(r, 0, size)
ReaderInit(img, size) ==
    LET lim == Min(size, ImgSize(img))
    IN  IF lim < headerSize THEN NoReader(errEOF)
        ELSE
        LET h == [ Ident |-> Dec32([i \in 1..4 |-> ImgByte(img, i - 1)]),
                   Dirofs |-> Dec32([i \in 1..4 |-> ImgByte(img, 4 + i - 1)]),
                   Dirlen |-> Dec32([i \in 1..4 |-> ImgByte(img, 8 + i - 1)]) ]
            numFiles == WVal(WDiv(h.Dirlen, entrySize))
            at(i) == WAdd(h.Dirofs, Wide(entrySize * (i - 1)))
            entryErr(i) ==
                IF WLess(Wide(lim), WAdd(at(i), Wide(entrySize))) THEN errEOF
                ELSE LET e == ReadEntry(img, WVal(at(i)))
                     IN  IF BadFileLen(e) THEN errBadFileLen
                         ELSE IF BadFilePos(e) THEN errBadFilePos
                         ELSE nil
        IN  IF h.Ident # pakIdent THEN NoReader(errBadIdent)
            ELSE IF BadDirLen(h) THEN NoReader(errBadDirLen)
            ELSE IF TooManyFiles(h) THEN NoReader(errTooManyFiles)
            ELSE IF BadDirOfs(h) THEN NoReader(errBadDirOfs)
            ELSE
            LET bad == {i \in 1..numFiles : entryErr(i) # nil}
            IN  IF bad # {}
                THEN NoReader(entryErr(CHOOSE i \in bad : \A j \in bad : i <= j))
                ELSE [ err |-> nil,
                       File |-> [i \in 1..numFiles |-> ReadEntry(img, WVal(at(i)))],
                       lim |-> lim ]

\* ioutil.ReadAll(f.Open()): the section [Filepos, Filepos+Filelen) of pak.r
OpenFile(img, pak, f) ==
    LET clip(x) == IF WLess(x, Wide(pak.lim)) THEN WVal(x) ELSE pak.lim
    IN  ImgRuns(img, clip(f.Filepos), clip(WAdd(f.Filepos, f.Filelen)))

(***************************************************************************)
(* pak.Writer                                                              *)
(***************************************************************************)
EmptyImage == [hdr |-> Rep(0, headerSize), body |-> <<>>, dir |-> <<>>, dirLen |-> 0]

\* no NewReader / OpenReader call yet
NotRead == [pak |-> NoReader("not read"), size |-> 0]

\* pakutil is not running
NoExtract == [pc |-> "off", dir |-> <<>>, i |-> 0, dirs |-> <<>>, made |-> <<>>, skipped |-> <<>>]

\* a length kept in 16 bits instead of 32
finishEntry16(fs, ofs) ==
    IF Len(fs) > 0
    THEN [fs EXCEPT ![Len(fs)].Filelen =
             [h |-> 0, l |-> WSub(U32(Wide(ofs)), fs[Len(fs)].Filepos).l]]
    ELSE fs

\* Writer.finishEntry: e.Filelen = uint32(pak.offset) - e.Filepos
finishEntry(fs, ofs) ==
    IF Len(fs) > 0
    THEN [fs EXCEPT ![Len(fs)].Filelen = U32(WSub(U32(Wide(ofs)), fs[Len(fs)].Filepos))]
    ELSE fs

NameTooLong(name) == Len(name) > MaxFileName

\* a directory limit that is off by one
DirOverFull(fs) == Len(fs) > MaxFiles

DirFull(fs) == Len(fs) >= MaxFiles

\* pak.offset > MaxOffset-len(p)
FileTooBig(ofs, n) == ofs > MaxOffset - n

\* pak.offset > MaxOffset-dirLen
DirTooFar(ofs, dirLen) == ofs > MaxOffset - dirLen

\* a writer that stays open when finish fails
closedIfFinished(err) == err = nil

\* pak.closed = true, after finish returned err
closedAfter(err) == TRUE

\* a Create that places every entry right after the header
NewEntryAtHeader(name, ofs) ==
    [Name |-> NameField(name), Filepos |-> Wide(headerSize), Filelen |-> Wide(0)]

\* the entry Create appends
NewEntry(name, ofs) == [Name |-> NameField(name), Filepos |-> U32(Wide(ofs)), Filelen |-> Wide(0)]

\* pakHeader written by finish
HeaderBytes(ofs, dirLen) == LE32(pakIdent) \o LE32(U32(Wide(ofs))) \o LE32(U32(Wide(dirLen)))

\* w.Write of n bytes of content at the end of the image
WriteContent(ww, runs) ==
    [ww EXCEPT !.img.body = AppendRuns(@, runs), !.pos = @ + RunsLen(runs)]

\* binary.Write(pak.w, files), of which n bytes reach the file
WriteDir(ww, fs, n) ==
    [ww EXCEPT !.img.dir = fs, !.img.dirLen = n, !.pos = @ + n]

\* binary.Write(pak.w, header) after Seek(0), of which n bytes reach the file
WriteHeader(ww, bytes, n) ==
    [ww EXCEPT !.img.hdr = SubSeq(bytes, 1, n) \o SubSeq(@, n + 1, Len(@)), !.pos = n]

(***************************************************************************)
(* The inputs of the Writer's caller.                                      *)
(***************************************************************************)
NoZero(name) == \A i \in 1..Len(name) : name[i] # 0

\* "foo", a 56-byte name, a 57-byte name
Names == { <<102, 111, 111>>, Rep(97, MaxFileName), Rep(98, MaxFileName + 1) }

SmallChunk == << [b |-> 1, n |-> 1], [b |-> 0, n |-> 1], [b |-> 2, n |-> 1] >>

\* content after which one directory record still fits, and content that fills
\* the archive up to MaxOffset
FitChunk == << [b |-> 7, n |-> MaxOffset - headerSize - entrySize] >>

EdgeChunk == << [b |-> 7, n |-> MaxOffset - headerSize] >>

Chunks == { <<>>, SmallChunk, FitChunk, EdgeChunk }

\* a directory within FullSlack entries of MaxFiles
Crowded == Len(files) + FullSlack >= MaxFiles

NamesNow == IF Crowded THEN { <<120>> } ELSE Names

ChunksNow == IF Crowded THEN { SmallChunk } ELSE Chunks

\* what the underlying writer may accept of a write of len bytes: all of it,
\* or fewer with an error
Accepted(len) == {len} \cup (IF ~Crowded /\ len > 0 /\ len < 8 THEN {len \div 2} ELSE {})

\* where Close may fail in the underlying writer, and how many bytes the
\* failing write still stored
CloseFaults ==
    IF Crowded THEN { [at |-> "none", n |-> 0] }
    ELSE { [at |-> "none", n |-> 0], [at |-> "dir", n |-> 0], [at |-> "seek", n |-> 0],
           [at |-> "hdr", n |-> 4], [at |-> "close", n |-> 0] }

(***************************************************************************)
(* Writer.Create, Writer.Write, Writer.Close, called by TestReadWrite.     *)
(***************************************************************************)
Create(name) ==
    /\ left > 0
    /\ left' = left - 1
    /\ drv' = IF drv = "create" /\ ~closed /\ ~NameTooLong(name) /\ NoZero(name)
                 /\ Len(want) < MaxFiles
              THEN "write" ELSE "off"
    /\ IF closed
       THEN /\ ret' = [op |-> "Create", err |-> errAlreadyClosed, n |-> 0, len |-> Len(name)]
            /\ UNCHANGED <<files, want>>
       ELSE LET fs == finishEntry(files, offset)
            IN  IF NameTooLong(name)
                THEN /\ ret' = [op |-> "Create", err |-> errNameTooLong, n |-> 0, len |-> Len(name)]
                     /\ files' = fs
                     /\ UNCHANGED want
                ELSE IF DirFull(fs)
                THEN /\ ret' = [op |-> "Create", err |-> errTooManyFiles, n |-> 0, len |-> Len(name)]
                     /\ files' = fs
                     /\ UNCHANGED want
                ELSE /\ ret' = [op |-> "Create", err |-> nil, n |-> 0, len |-> Len(name)]
                     /\ files' = Append(fs, NewEntry(name, offset))
                     /\ want' = Append(want, [name |-> name, pos |-> offset,
                                              data |-> <<>>, asked |-> <<>>])
    /\ UNCHANGED <<offset, closed, isFile, w, fault, rdVars, srvVars>>

Write(p, n) ==
    /\ left > 0
    /\ left' = left - 1
    /\ drv' = IF drv = "write" THEN "create" ELSE "off"
    /\ LET asked == IF Len(want) > 0 /\ ~closed
                    THEN [want EXCEPT ![Len(want)].asked = Append(@, p)]
                    ELSE want
       IN
       IF closed
       THEN /\ ret' = [op |-> "Write", err |-> errAlreadyClosed, n |-> 0, len |-> RunsLen(p)]
            /\ want' = asked
            /\ UNCHANGED <<offset, w, fault>>
       ELSE IF Len(files) = 0
       THEN /\ ret' = [op |-> "Write", err |-> errFileNotOpen, n |-> 0, len |-> RunsLen(p)]
            /\ want' = asked
            /\ UNCHANGED <<offset, w, fault>>
       ELSE IF FileTooBig(offset, RunsLen(p))
       THEN /\ ret' = [op |-> "Write", err |-> errFileTooBig, n |-> 0, len |-> RunsLen(p)]
            /\ want' = asked
            /\ UNCHANGED <<offset, w, fault>>
       ELSE /\ ret' = [op |-> "Write", err |-> IF n = RunsLen(p) THEN nil ELSE errIO,
                        n |-> n, len |-> RunsLen(p)]
            /\ w' = WriteContent(w, TakeRuns(p, n))
            /\ offset' = offset + n
            /\ want' = [asked EXCEPT ![Len(want)].data = AppendRuns(@, TakeRuns(p, n))]
            /\ fault' = (fault \/ n # RunsLen(p))
    /\ UNCHANGED <<files, closed, isFile, rdVars, srvVars>>

\* a finish that writes the header first and the directory after it
FinishHeaderFirst(fs, f) ==
    LET dirLen == entrySize * Len(fs)
        hw == [WriteHeader(w, HeaderBytes(offset, dirLen), headerSize) EXCEPT !.pos = w.pos]
    IN  IF DirTooFar(offset, dirLen) THEN [err |-> errBadDirOfs, w |-> w]
        ELSE IF f.at = "dir" THEN [err |-> errIO, w |-> WriteDir(hw, fs, f.n)]
        ELSE IF f.at \in {"seek", "hdr"} THEN [err |-> errIO, w |-> WriteDir(hw, fs, dirLen)]
        ELSE [err |-> nil, w |-> [WriteDir(hw, fs, dirLen) EXCEPT !.pos = headerSize]]

\* Writer.finish, with the underlying writer failing at f.at
Finish(fs, f) ==
    LET dirLen == entrySize * Len(fs)
    IN  IF DirTooFar(offset, dirLen) THEN [err |-> errBadDirOfs, w |-> w]
        ELSE IF f.at = "dir" THEN [err |-> errIO, w |-> WriteDir(w, fs, f.n)]
        ELSE IF f.at = "seek" THEN [err |-> errIO, w |-> WriteDir(w, fs, dirLen)]
        ELSE IF f.at = "hdr"
        THEN [err |-> errIO,
              w |-> WriteHeader(WriteDir(w, fs, dirLen), HeaderBytes(offset, dirLen), f.n)]
        ELSE [err |-> nil,
              w |-> WriteHeader(WriteDir(w, fs, dirLen), HeaderBytes(offset, dirLen), headerSize)]

Close(f) ==
    /\ left > 0
    /\ left' = left - 1
    /\ drv' = IF drv = "create" /\ ~closed THEN "closed" ELSE "off"
    /\ IF closed
       THEN /\ ret' = [op |-> "Close", err |-> errAlreadyClosed, n |-> 0, len |-> 0]
            /\ UNCHANGED <<files, closed, w, fault>>
       ELSE LET fs == finishEntry(files, offset)
                r == Finish(fs, f)
                err2 == IF isFile /\ f.at = "close" THEN errIO ELSE nil
            IN  /\ files' = fs
                /\ closed' = closedAfter(r.err)
                /\ w' = IF isFile THEN [r.w EXCEPT !.open = FALSE] ELSE r.w
                /\ ret' = [op |-> "Close", err |-> IF r.err # nil THEN r.err ELSE err2,
                            n |-> 0, len |-> 0]
                /\ fault' = (fault \/ (r.err = errIO) \/ (err2 # nil))
    /\ UNCHANGED <<offset, isFile, want, rdVars, srvVars>>

\* pak.OpenReader on the Writer's output
ReadBack == ReaderInit(w.img, ImgSize(w.img))

\* NewWriter / OpenWriter; a nearly full directory is what Create("") leaves
\* when called that many times on a new Writer
InitPak ==
    \E pre \in {0} \cup ((MaxFiles - FullSlack)..MaxFiles), f \in BOOLEAN :
        /\ (pre > 0 => ~f)
        /\ files = [i \in 1..pre |-> NewEntry(<<>>, headerSize)]
        /\ want = [i \in 1..pre |-> [name |-> <<>>, pos |-> headerSize,
                                     data |-> <<>>, asked |-> <<>>]]
        /\ offset = headerSize
        /\ closed = FALSE
        /\ isFile = f
        /\ w = [img |-> EmptyImage, pos |-> headerSize, open |-> TRUE]
        /\ ret = [op |-> "NewWriter", err |-> nil, n |-> 0, len |-> 0]
        /\ drv = "create"
        /\ fault = FALSE
        /\ left = IF pre = 0 THEN MaxOps ELSE FullOps
        /\ arc = EmptyImage
        /\ rd = NotRead /\ ext = NoExtract
        /\ IdleServer

NextPak ==
    \/ \E name \in NamesNow : Create(name)
    \/ \E p \in ChunksNow : \E n \in Accepted(RunsLen(p)) : Write(p, n)
    \/ \E f \in CloseFaults : Close(f)

Init == InitPak

Spec == Init /\ [][NextPak]_vars

(***************************************************************************)
(* pak.NewReader / pak.OpenReader on archives of any content.              *)
(***************************************************************************)
\* 2^31 and 2^32 - 1 in halves
Wide31 == [h |-> 32768, l |-> 0]

WideMax == [h |-> 65535, l |-> 65535]

\* an archive: the header fields, gap zero bytes, then the directory records
MkArchive(ident, dirofs, dirlen, gap, entries) ==
    [ hdr |-> LE32(ident) \o LE32(dirofs) \o LE32(dirlen),
      body |-> IF gap > 0 THEN << [b |-> 0, n |-> gap] >> ELSE <<>>,
      dir |-> entries,
      dirLen |-> entrySize * Len(entries) ]

\* "PACK" and "PACL"
Idents == { pakIdent, [h |-> 67 + 76 * 256, l |-> 80 + 65 * 256] }

\* directory sizes of the archives: none, a few, the most allowed
DirCounts == (0..MaxDir) \cup { MaxFiles }

\* field values around the limits, among them pairs whose 32-bit sum wraps
FilePosVals ==
    { Wide(0), Wide(headerSize), Wide(MaxOffset - 3), Wide(MaxOffset),
      Wide31, WSub(WideMax, Wide(2)), WideMax }

FileLenVals ==
    { Wide(0), Wide(3), Wide(4), Wide(MaxOffset), Wide31, WSub(WideMax, Wide(2)), WideMax }

\* records of a directory of k entries, the one at slot `at' with the given fields
DirOf(k, at, pos, len) ==
    [i \in 1..k |-> [ Name |-> << 102 >>,
                      Filepos |-> IF i = at THEN pos ELSE Wide(headerSize),
                      Filelen |-> IF i = at THEN len ELSE Wide(0) ]]

\* what the header may say of a directory that is at ofs and has len bytes
DirOfsVals(ofs, len) ==
    { Wide(ofs), Wide(0), WAdd(Wide(MaxOffset - len), Wide(1)), Wide31,
      U32(WSub(Wide(0), Wide(len))) }

DirLenVals(len) ==
    { Wide(len), Wide(len + entrySize - 1), Wide(entrySize * (MaxFiles + 1)),
      Wide31, WSub(WideMax, Wide(entrySize - 1)) }

\* the writer of a program that only reads
IdleWriter ==
    /\ files = <<>> /\ want = <<>> /\ offset = headerSize /\ closed = FALSE
    /\ isFile = FALSE
    /\ w = [img |-> EmptyImage, pos |-> headerSize, open |-> TRUE]
    /\ ret = [op |-> "NewWriter", err |-> nil, n |-> 0, len |-> 0]
    /\ drv = "off" /\ fault = FALSE /\ left = 0

\* pak.NewReader(r, size)
NewReader(size) ==
    /\ rd = NotRead
    /\ rd' = [pak |-> ReaderInit(arc, size), size |-> size]
    /\ UNCHANGED <<pakVars, arc, ext, srvVars>>

\* pak.OpenReader(name): the size is the file's
OpenReader ==
    /\ rd = NotRead
    /\ rd' = [pak |-> ReaderInit(arc, ImgSize(arc)), size |-> ImgSize(arc)]
    /\ UNCHANGED <<pakVars, arc, ext, srvVars>>

InitReader ==
    /\ IdleWriter
    /\ IdleServer
    /\ rd = NotRead /\ ext = NoExtract
    /\ \E id \in Idents, k \in DirCounts :
       \E gap \in {0, MaxOffset - headerSize - entrySize * k}, at \in {1, k} :
       \E dirofs \in DirOfsVals(headerSize + gap, entrySize * k),
          dirlen \in DirLenVals(entrySize * k) :
       \E pos \in FilePosVals, len \in FileLenVals :
          /\ \/ /\ dirofs = Wide(headerSize + gap) /\ dirlen = Wide(entrySize * k)
                /\ id = pakIdent /\ (k = 0 => pos = Wide(0) /\ len = Wide(0))
                /\ (k > MaxDir => gap = 0 /\ pos = Wide(MaxOffset - 3))
             \/ /\ pos = WSub(WideMax, Wide(2)) /\ len = Wide(4)
                /\ at = k /\ k <= MaxDir
          /\ arc = MkArchive(id, dirofs, dirlen, gap, DirOf(k, at, pos, len))

NextReader ==
    \/ \E short \in {headerSize - 1, entrySize} :
           ImgSize(arc) >= short /\ NewReader(ImgSize(arc) - short)
    \/ OpenReader

SpecReader == InitReader /\ [][NextReader]_vars

\* header and directory as NewReader is given them, and sums without a width
HeaderOf(img) ==
    [ Ident |-> Dec32(SubSeq(img.hdr, 1, 4)),
      Dirofs |-> Dec32(SubSeq(img.hdr, 5, 8)),
      Dirlen |-> Dec32(SubSeq(img.hdr, 9, 12)) ]

\* a + b > 2^31 - 1, in the integers
Exceeds(a, b) == WLess(Wide(MaxOffset), WAdd(a, b))

\* the directory records that the header names and the given size covers
EntriesOf(img, size) ==
    LET h == HeaderOf(img)
        fits(i) == ~WLess(Wide(Min(size, ImgSize(img))),
                          WAdd(h.Dirofs, Wide(entrySize * i)))
    IN  { ReadEntry(img, WVal(h.Dirofs) + entrySize * (i - 1)) :
            i \in { j \in 1..WVal(WDiv(h.Dirlen, entrySize)) : fits(j) } }

BadHeader(img) ==
    LET h == HeaderOf(img)
    IN  \/ h.Ident # pakIdent
        \/ WMod(h.Dirlen, entrySize) # 0
        \/ WLess(Wide(MaxFiles), WDiv(h.Dirlen, entrySize))
        \/ Exceeds(h.Dirofs, h.Dirlen)

BadEntries(img, size) == \E e \in EntriesOf(img, size) : Exceeds(e.Filepos, e.Filelen)

\* C2: NewReader/OpenReader returns an error and no Reader whenever the ident
\* is not "PACK", dirLength is not a multiple of 64, dirLength/64 exceeds 4096,
\* dirOffset + dirLength exceeds 2^31-1 or some directory entry has filePos +
\* fileLen exceeding 2^31-1, the sums taken in the integers: no 32-bit field
\* values let such an archive through by wraparound.
C2_ReaderRejects ==
    (rd # NotRead /\ (BadHeader(arc) \/ BadEntries(arc, rd.size)))
        => (rd.pak.err # nil /\ rd.pak.File = <<>>)

\* an archive was refused whose entry has filePos + fileLen beyond 2^31-1 in
\* the integers but small after 32-bit wraparound
C2_Witness ==
    /\ rd # NotRead /\ rd.pak.err # nil
    /\ ~BadHeader(arc)
    /\ \E e \in EntriesOf(arc, rd.size) :
          /\ Exceeds(e.Filepos, e.Filelen)
          /\ ~WLess(Wide(MaxOffset), U32(WAdd(e.Filepos, e.Filelen)))

(***************************************************************************)
(* The Writer's output seen by the Reader, and what the caller expects.    *)
(***************************************************************************)
\* the bytes of the one chunk asked for an entry (none asked: empty content)
AskedOf(x) == IF x.asked = <<>> THEN <<>> ELSE x.asked[1]

RECURSIVE ChunksLen(_)
ChunksLen(cs) == IF cs = <<>> THEN Wide(0) ELSE WAdd(Wide(RunsLen(cs[1])), ChunksLen(Tail(cs)))

\* total length of the content asked for entries lo..hi
RECURSIVE AskedSum(_, _)
AskedSum(lo, hi) ==
    IF lo > hi THEN Wide(0)
    ELSE IF lo = hi THEN ChunksLen(want[lo].asked)
    ELSE WAdd(AskedSum(lo, (lo + hi) \div 2), AskedSum((lo + hi) \div 2 + 1, hi))

\* header, content and directory together end at or below MaxOffset
FitsArchive ==
    ~WLess(Wide(MaxOffset),
           WAdd(Wide(headerSize + entrySize * Len(want)), AskedSum(1, Len(want))))

\* the Reader lists the entries asked for, in order, with their names and content
RoundTrips ==
    LET pak == ReadBack
    IN  /\ pak.err = nil
        /\ Len(pak.File) = Len(want)
        /\ \A i \in 1..Len(want) :
              /\ pak.File[i].Name = want[i].name
              /\ OpenFile(w.img, pak, pak.File[i]) = AskedOf(want[i])

\* the calls were Create, Write, ..., Create, Write, Close with names of at most
\* 56 non-zero bytes and at most 4096 entries, and the underlying writer stored
\* all it was given
PairsWritten == drv = "closed" /\ ~fault

\* the Writer never leaves the underlying position away from the end of the content
WriterAppends == ~closed => (w.pos = ImgSize(w.img) /\ w.pos = offset /\ w.img.dirLen = 0)

\* C19: every entry of an archive that the Reader accepted lies within the
\* file: its position plus its length is at most the size of the archive
C19_EntryBounds ==
    (rd # NotRead /\ rd.pak.err = nil) =>
        \A i \in 1..Len(rd.pak.File) :
            \/ ~WLess(Wide(rd.size), WAdd(rd.pak.File[i].Filepos, rd.pak.File[i].Filelen))
            \/ ~WLess(Wide(ImgSize(arc)), WAdd(rd.pak.File[i].Filepos, rd.pak.File[i].Filelen))

(***************************************************************************)
(* Properties of the Writer and of its output.                             *)
(***************************************************************************)
\* C1 as stated: for any sequence of (name, content) pairs, of whatever total
\* size, Create and Write per pair and then Close give an archive from which
\* the Reader returns the same names and contents in order.
C1_RoundTripAnySize == PairsWritten => RoundTrips

\* C1 amended: the round trip holds for every sequence of pairs whose header,
\* contents and directory together do not exceed 2^31-1 bytes (names of at most
\* 56 non-zero bytes, empty content, content with zero bytes, duplicate names,
\* 0 to 4096 entries).
C1_RoundTrip == (PairsWritten /\ FitsArchive) => RoundTrips

\* a full directory of 4096 entries with duplicate names, the last with content
\* holding a zero byte, was written and read back
C1_Witness ==
    /\ PairsWritten /\ FitsArchive
    /\ Len(want) = MaxFiles
    /\ want[MaxFiles].asked = << SmallChunk >>
    /\ ReadBack.err = nil

\* C3: Write before the first Create fails with "file not open" and writes
\* nothing; the first Close marks the writer closed whether or not it succeeds;
\* every later Close, Create or Write fails with "already closed" and changes
\* neither the entries, the cursor nor the output.
C3_Lifecycle ==
    [][ /\ (~closed /\ Len(files) = 0 /\ ret'.op = "Write")
              => (ret'.err = errFileNotOpen /\ ret'.n = 0 /\ w' = w
                  /\ offset' = offset /\ files' = files)
        /\ (~closed /\ ret'.op = "Close") => closed'
        /\ closed => (ret'.err = errAlreadyClosed /\ ret'.n = 0 /\ closed'
                      /\ files' = files /\ offset' = offset /\ w' = w) ]_vars

\* a Close that failed has been followed by a call that was refused
C3_Witness ==
    /\ closed /\ ret.err = errAlreadyClosed
    /\ ReadBack.err = errBadIdent
    /\ Len(files) > 0

\* the position and name of every entry
Places(fs) == [i \in 1..Len(fs) |-> <<fs[i].Name, fs[i].Filepos>>]

\* C4: Create fails exactly when the writer is closed, the name is longer than
\* 56 bytes or 4096 entries exist; a failed Create adds no entry and leaves the
\* cursor unchanged, and the bytes written after it still count for the entry
\* created before; a successful Create opens a new entry at the cursor.
C4_Create ==
    /\ [][ ret'.op = "Create" =>
             /\ (ret'.err # nil) <=>
                    (closed \/ ret'.len > MaxFileName \/ Len(files) >= MaxFiles)
             /\ ret'.err # nil =>
                    (Places(files') = Places(files) /\ offset' = offset /\ w' = w)
             /\ ret'.err = nil =>
                    /\ Len(files') = Len(files) + 1
                    /\ SubSeq(Places(files'), 1, Len(files)) = Places(files)
                    /\ files'[Len(files')].Filepos = Wide(offset)
                    /\ offset' = offset /\ w' = w ]_vars
    /\ [](closed => \A i \in 1..Len(files) :
                        files[i].Filelen = Wide(RunsLen(want[i].data)))

\* with 4096 entries a further Create was refused
C4_Witness ==
    /\ ret.op = "Create" /\ ret.err = errTooManyFiles
    /\ Len(files) = MaxFiles

\* C5: a Write that would move the cursor beyond 2^31-1 fails with nothing
\* written and the cursor unchanged; so the cursor stays within 12..2^31-1 and
\* every recorded filePos and fileLen is the true value.
C5_WriteBound ==
    /\ [][ (ret'.op = "Write" /\ offset > MaxOffset - ret'.len) =>
               (ret'.err # nil /\ ret'.n = 0 /\ offset' = offset /\ w' = w) ]_vars
    /\ [](/\ headerSize <= offset /\ offset <= MaxOffset
          /\ Len(files) = Len(want)
          /\ \A i \in 1..Len(files) :
                /\ files[i].Filepos = Wide(want[i].pos)
                /\ (i < Len(files) \/ closed) =>
                       files[i].Filelen = Wide(RunsLen(want[i].data)))

\* a Write was refused for size after content had been written
C5_Witness ==
    /\ ret.op = "Write" /\ ret.err = errFileTooBig
    /\ offset > MaxOffset - ret.len
    /\ Len(files) > 1

(***************************************************************************)
(* Strings of package main: sequences of bytes.  47 is '/', 46 '.',        *)
(* 92 '\', 48..57 the digits, 65..90 'A'..'Z', 97..122 'a'..'z'.          *)
(***************************************************************************)
\* strings.ToLower, on ASCII
ToLower(str) == [i \in 1..Len(str) |-> IF str[i] >= 65 /\ str[i] <= 90 THEN str[i] + 32 ELSE str[i]]

\* strings.HasPrefix, strings.HasSuffix
HasPrefix(str, pre) == Len(str) >= Len(pre) /\ SubSeq(str, 1, Len(pre)) = pre

HasSuffix(str, suf) ==
    Len(str) >= Len(suf) /\ SubSeq(str, Len(str) - Len(suf) + 1, Len(str)) = suf

\* a < b on strings: bytewise
RECURSIVE StrLess(_, _)
StrLess(a, b) ==
    IF b = <<>> THEN FALSE
    ELSE IF a = <<>> THEN TRUE
    ELSE IF a[1] # b[1] THEN a[1] < b[1]
    ELSE StrLess(Tail(a), Tail(b))

\* strings.ReplaceAll(n, `\`, `/`)
Slashed(str) == [i \in 1..Len(str) |-> IF str[i] = 92 THEN 47 ELSE str[i]]

\* path.Clean: the loop over path[r:], out the bytes kept so far
RECURSIVE Backtrack(_, _, _)
Backtrack(out, wr, dotdot) ==
    IF wr > dotdot /\ out[wr + 1] # 47 THEN Backtrack(out, wr - 1, dotdot) ELSE wr

RECURSIVE ElemEnd(_, _)
ElemEnd(path, r) ==
    IF r < Len(path) /\ path[r + 1] # 47 THEN ElemEnd(path, r + 1) ELSE r

RECURSIVE CleanLoop(_, _, _, _, _)
CleanLoop(path, r, out, dotdot, rooted) ==
    LET n == Len(path)
    IN  IF r >= n THEN out
        ELSE IF path[r + 1] = 47 THEN CleanLoop(path, r + 1, out, dotdot, rooted)
        ELSE IF path[r + 1] = 46 /\ (r + 1 = n \/ path[r + 2] = 47)
        THEN CleanLoop(path, r + 1, out, dotdot, rooted)
        ELSE IF path[r + 1] = 46 /\ path[r + 2] = 46 /\ (r + 2 = n \/ path[r + 3] = 47)
        THEN IF Len(out) > dotdot
             THEN CleanLoop(path, r + 2,
                            SubSeq(out, 1, Backtrack(out, Len(out) - 1, dotdot)),
                            dotdot, rooted)
             ELSE IF ~rooted
             THEN LET o2 == (IF Len(out) > 0 THEN Append(out, 47) ELSE out) \o << 46, 46 >>
                  IN  CleanLoop(path, r + 2, o2, Len(o2), rooted)
             ELSE CleanLoop(path, r + 2, out, dotdot, rooted)
        ELSE LET o1 == IF (rooted /\ Len(out) # 1) \/ (~rooted /\ Len(out) # 0)
                       THEN Append(out, 47) ELSE out
                 e == ElemEnd(path, r)
             IN  CleanLoop(path, e, o1 \o SubSeq(path, r + 1, e), dotdot, rooted)

Clean(path) ==
    IF path = <<>> THEN << 46 >>
    ELSE LET rooted == path[1] = 47
             out == IF rooted THEN CleanLoop(path, 1, << 47 >>, 1, TRUE)
                    ELSE CleanLoop(path, 0, <<>>, 0, FALSE)
         IN  IF out = <<>> THEN << 46 >> ELSE out

\* filepath.Join(dir, name) on a '/' platform
Join(dir, name) == Clean(dir \o << 47 >> \o name)

\* a name with its backslashes replaced and its letters lowered, not cleaned
normalizeNameNoClean(n) == ToLower(Slashed(n))

normalizeName(n) == ToLower(Tail(Clean(<< 47 >> \o Slashed(n))))

\* a pakToFs that cleans the name without a '/' before it
pakToFsUnrooted(n) == ToLower(Clean(Slashed(n)))

\* pakToFs of pakutil
pakToFs(n) == ToLower(Tail(Clean(<< 47 >> \o Slashed(n))))

(***************************************************************************)
(* The scanner: scanpak, scanzip, atoi, scandir.                           *)
(* A directory of disk is [ok, names, file]: whether it can be opened and  *)
(* listed, the names in the order Readdirnames returns them, and per name  *)
(* [open, img, zip]: whether os.Open succeeds, the bytes, and what         *)
(* zip.OpenReader makes of them; tree holds what else lies below it.        *)
(***************************************************************************)
IsDigit(c) == c >= 48 /\ c <= 57

\* the first run of digits of str from position i on: strings.FieldsFunc(...)[0]
RECURSIVE DigitRun(_, _)
DigitRun(str, i) ==
    IF i > Len(str) THEN <<>>
    ELSE IF IsDigit(str[i])
    THEN << str[i] >> \o (IF i < Len(str) /\ IsDigit(str[i + 1]) THEN DigitRun(str, i + 1) ELSE <<>>)
    ELSE DigitRun(str, i + 1)

\* strconv.Atoi of a short run of digits
RECURSIVE DigitsVal(_)
DigitsVal(ds) == IF ds = <<>> THEN 0 ELSE DigitsVal(SubSeq(ds, 1, Len(ds) - 1)) * 10 + ds[Len(ds)] - 48

atoi(str) ==
    LET f == DigitRun(str, 1)
    IN  IF f # <<>> THEN [v |-> DigitsVal(f), ok |-> TRUE] ELSE [v |-> 0, ok |-> FALSE]

\* ".pak", ".pkz", "pak"
extPak == << 46, 112, 97, 107 >>

extPkz == << 46, 112, 107, 122 >>

prefixPak == << 112, 97, 107 >>

\* the less function scandir gives to sort.Slice
lessPak(paks, i, j) ==
    LET a == ToLower(paks[j])
        b == ToLower(paks[i])
        p1 == HasPrefix(a, prefixPak)
        p2 == HasPrefix(b, prefixPak)
    IN  IF p1 /\ p2
        THEN IF atoi(a).ok /\ atoi(b).ok THEN atoi(a).v < atoi(b).v ELSE StrLess(a, b)
        ELSE IF p1 THEN TRUE
        ELSE IF p2 THEN FALSE
        ELSE StrLess(a, b)

\* sort.Slice on at most six elements: in every release of Go an insertion sort,
\*   for i := 1; i < n; i++ { for j := i; j > 0 && less(j, j-1); j-- { swap(j, j-1) } }
RECURSIVE SinkDown(_, _)
SinkDown(paks, j) ==
    IF j > 1 /\ lessPak(paks, j, j - 1)
    THEN SinkDown([paks EXCEPT ![j] = paks[j - 1], ![j - 1] = paks[j]], j - 1)
    ELSE paks

RECURSIVE InsertionSort(_, _)
InsertionSort(paks, i) ==
    IF i > Len(paks) THEN paks ELSE InsertionSort(SinkDown(paks, i), i + 1)

sortSlice(paks) == InsertionSort(paks, 2)

\* m[k] = v on a Go map
MapSet(m, k, v) == [x \in DOMAIN m \cup {k} |-> IF x = k THEN v ELSE m[x]]

\* the body of the loop of scanpak for the entry e read from the directory:
\* the PakFileEntry it stores has offset and size only
PakStep(r, e) ==
    IF WLess(Wide(MaxOffset), e.Filelen) THEN [err |-> "pak: bad directory", files |-> <<>>]
    ELSE [ err |-> nil,
           files |-> MapSet(r.files, normalizeName(e.Name),
                            [ offset |-> e.Filepos, size |-> e.Filelen, filecrc |-> Wide(0),
                              filelen |-> Wide(0), mtime |-> Wide(0), method |-> 0 ]) ]

\* the loop of scanpak over entries i..n at dirofs, until an entry is refused
RECURSIVE ScanPakLoop(_, _, _, _, _)
ScanPakLoop(img, dirofs, i, n, r) ==
    IF i > n \/ r.err # nil THEN r
    ELSE ScanPakLoop(img, dirofs, i + 1, n, PakStep(r, ReadEntry(img, dirofs + entrySize * (i - 1))))

\* what scanpak returns after the loop: binary.Read fails with EOF when the
\* file ends before the directory does (short)
ScanPakEnd(r, short) ==
    IF r.err # nil THEN [err |-> r.err, files |-> <<>>]
    ELSE IF short THEN [err |-> errEOF, files |-> <<>>]
    ELSE r

\* scanpak after the header h has been read
ScanPakDir(img, h) ==
    LET numFiles == WDiv(h.Dirlen, entrySize)
        \* the entries that can be read before the end of the file
        room == WSub(Wide(ImgSize(img)), h.Dirofs)
        short == WLess(room, Wide(0)) \/ WLess(WDiv(room, entrySize), numFiles)
        have == IF WLess(room, Wide(0)) THEN 0
                ELSE IF short THEN WVal(WDiv(room, entrySize)) ELSE WVal(numFiles)
    IN  IF h.Ident # pakIdent THEN [err |-> errBadIdent, files |-> <<>>]
        ELSE IF numFiles = Wide(0) THEN [err |-> nil, files |-> <<>>]
        ELSE IF WLess(room, Wide(0)) THEN [err |-> errEOF, files |-> <<>>]
        ELSE ScanPakEnd(ScanPakLoop(img, WVal(h.Dirofs), 1, have, [err |-> nil, files |-> <<>>]),
                        short)

scanpak(f) ==
    IF ~f.open THEN [err |-> "open", files |-> <<>>]
    ELSE IF ImgSize(f.img) < headerSize THEN [err |-> errEOF, files |-> <<>>]
    ELSE ScanPakDir(f.img, [ Ident |-> Dec32([i \in 1..4 |-> ImgByte(f.img, i - 1)]),
                             Dirofs |-> Dec32([i \in 1..4 |-> ImgByte(f.img, 4 + i - 1)]),
                             Dirlen |-> Dec32([i \in 1..4 |-> ImgByte(f.img, 8 + i - 1)]) ])

\* the PakFileEntry scanzip stores for a zip.File
ZipEntry(zf) ==
    [ offset |-> zf.ofs, size |-> zf.CompressedSize, filecrc |-> zf.CRC32,
      filelen |-> zf.UncompressedSize, mtime |-> U32(zf.Modified), method |-> zf.Method ]

\* f.CompressedSize == math.MaxUint32 || f.UncompressedSize == math.MaxUint32
Oversize(zf) == zf.CompressedSize = WideMax \/ zf.UncompressedSize = WideMax

RECURSIVE ScanZipLoop(_, _, _)
ScanZipLoop(zfs, i, m) ==
    IF i > Len(zfs) THEN m
    ELSE IF ~zfs[i].ofsOk \/ zfs[i].isDir \/ Oversize(zfs[i]) THEN ScanZipLoop(zfs, i + 1, m)
    ELSE ScanZipLoop(zfs, i + 1, MapSet(m, normalizeName(zfs[i].Name), ZipEntry(zfs[i])))

scanzip(f) ==
    IF ~f.open \/ ~f.zip.ok THEN [err |-> "zip: not a valid zip file", files |-> <<>>]
    ELSE [err |-> nil, files |-> ScanZipLoop(f.zip.File, 1, <<>>)]

\* the names scandir keeps of a listing
RECURSIVE PakNames(_)
PakNames(n) ==
    IF n = <<>> THEN <<>>
    ELSE LET l == ToLower(n[1])
         IN  (IF HasSuffix(l, extPak) \/ HasSuffix(l, extPkz) THEN << n[1] >> ELSE <<>>)
             \o PakNames(Tail(n))

\* a scandir that keeps the archives whose scan failed
ScannedAnyway(path, r) == << [path |-> path, isDir |-> FALSE, files |-> r.files] >>

\* what scandir appends for the archive at path: nothing when the scan
\* failed, else a SearchPath with the entries
Scanned(path, r) ==
    IF r.err # nil THEN <<>> ELSE << [path |-> path, isDir |-> FALSE, files |-> r.files] >>

\* the loop of scandir over the sorted names
RECURSIVE ScanAll(_, _, _)
ScanAll(dir, name, paks) ==
    IF paks = <<>> THEN <<>>
    ELSE Scanned(Join(name, paks[1]),
                 IF HasSuffix(ToLower(paks[1]), extPkz) THEN scanzip(dir.file[paks[1]])
                 ELSE scanpak(dir.file[paks[1]]))
         \o ScanAll(dir, name, Tail(paks))

\* a scandir that puts the directory before its archives
SentinelFirst(white, name, sp) ==
    IF white THEN << [path |-> name, isDir |-> TRUE, files |-> <<>>] >> \o sp ELSE sp

\* if len(dirWhiteList) > 0 { sp = append(sp, SearchPath{name, nil}) }: a
\* SearchPath without files is the directory itself
WithSentinel(white, name, sp) ==
    IF white THEN Append(sp, [path |-> name, isDir |-> TRUE, files |-> <<>>]) ELSE sp

\* dirCache[name] = sp; return sp
Cached(cache, name, sp) == [fatal |-> FALSE, sp |-> sp, cache |-> MapSet(cache, name, sp)]

\* a scandir that reads the directory whatever the cache holds
scandirNoCache(cache, dsk, white, name) ==
    IF name \notin DOMAIN dsk \/ ~dsk[name].ok THEN [fatal |-> TRUE, sp |-> <<>>, cache |-> cache]
    ELSE Cached(cache, name,
                WithSentinel(white, name,
                             ScanAll(dsk[name], name, sortSlice(PakNames(dsk[name].names)))))

\* scandir(name) with dirCache = cache: fatal when log.Fatal ends the process,
\* else the list returned and the cache afterwards
scandir(cache, dsk, white, name) ==
    IF name \in DOMAIN cache THEN [fatal |-> FALSE, sp |-> cache[name], cache |-> cache]
    ELSE IF name \notin DOMAIN dsk \/ ~dsk[name].ok THEN [fatal |-> TRUE, sp |-> <<>>, cache |-> cache]
    ELSE Cached(cache, name,
                WithSentinel(white, name,
                             ScanAll(dsk[name], name, sortSlice(PakNames(dsk[name].names)))))

(***************************************************************************)
(* scanSearchPaths.  A pattern is [anchored, alts]: ^(alt1|alt2|...) or    *)
(* (alt1|alt2|...) over literal alternatives, the form in which the        *)
(* configuration holds it and regexp.MustCompile returns it.               *)
(***************************************************************************)
\* sp = append(sp, scandir(dir)...), for what scandir returned
AppendScan(acc, r) == [fatal |-> r.fatal, sp |-> acc.sp \o r.sp, cache |-> r.cache]

\* the loop over cfg.Search, until scandir ends the process
RECURSIVE ScanDirs(_, _, _, _)
ScanDirs(acc, dsk, white, dirs) ==
    IF dirs = <<>> \/ acc.fatal THEN acc
    ELSE ScanDirs(AppendScan(acc, scandir(acc.cache, dsk, white, dirs[1])), dsk, white, Tail(dirs))

\* searchPaths = append(searchPaths, CompiledSearchPath{...}), for the list r
\* of the route c
AddRoute(st, c, r) ==
    [ fatal |-> r.fatal,
      table |-> IF r.fatal THEN st.table ELSE Append(st.table, [match |-> c.Match, search |-> r.sp]),
      cache |-> r.cache ]

\* one iteration of the loop over config.SearchPaths, on the table and the
\* cache built so far
ScanRoute(st, dsk, cfg, c) ==
    AddRoute(st, c, ScanDirs([fatal |-> FALSE, sp |-> <<>>, cache |-> st.cache], dsk,
                             Len(cfg.DirWhiteList) > 0, c.Search))

\* the iterations from route i on
RECURSIVE ScanRoutes(_, _, _, _)
ScanRoutes(st, dsk, cfg, i) ==
    IF i > Len(cfg.SearchPaths) \/ st.fatal THEN st
    ELSE ScanRoutes(ScanRoute(st, dsk, cfg, cfg.SearchPaths[i]), dsk, cfg, i + 1)

\* scanSearchPaths from its first line to its last, nothing else running
BuildTable(dsk, cfg) == ScanRoutes([fatal |-> FALSE, table |-> <<>>, cache |-> <<>>], dsk, cfg, 1)

\* main's scanSearchPaths at startup, or the one waitForSignal runs for a
\* signal taken from its channel, while no request is being handled
Rescan ==
    /\ reload.pc = "start" \/ (reload.pc = "wait" /\ sig > 0)
    /\ ~mutex.w /\ mutex.r = 0
    /\ sig' = IF reload.pc = "start" THEN sig ELSE sig - 1
    /\ \E t \in { BuildTable(disk, config) } :
           /\ searchPaths' = t.table
           /\ dirCache' = t.cache
           /\ reload' = [reload EXCEPT !.pc = IF t.fatal THEN "exited" ELSE "wait",
                                        !.owed = FALSE, !.heard = FALSE]
           /\ mutex' = [mutex EXCEPT !.w = t.fatal]
           /\ hist' = IF t.fatal THEN hist ELSE Append(hist, t.table)
    /\ UNCHANGED <<pakVars, rdVars, heap, config, disk, reqs>>

\* a channel that takes no signal
DeliverNone(n) == n

\* what signal.Notify's send without blocking leaves in a channel that holds n
\* signals
Deliver(n) == IF n < sigBuffer THEN n + 1 ELSE n

\* fewer than n tables have been built, are being built or are to be built
\* for a signal in the channel
ScansBelow(n) ==
    Len(hist) + sig + (IF reload.pc \in {"taken", "locking", "locked", "scan"} THEN 1 ELSE 0) < n

\* SIGHUP is delivered to the process. Before signal.Notify has been called
\* the process exits, or, started with SIGHUP ignored, takes no notice; after
\* it the signal goes to the channel of waitForSignal, unless that is full.
\* owed, heard and dropped record that a signal was delivered, was delivered
\* to the channel, and found it full.
SigHup ==
    /\ reload.pc \notin {"off", "exited"}
    /\ IF reload.pc \in {"start", "main"}
       THEN /\ \E pc \in {"exited", reload.pc} : reload' = [reload EXCEPT !.pc = pc, !.owed = TRUE]
            /\ sig' = sig
       ELSE /\ sig' = Deliver(sig)
            /\ reload' = [reload EXCEPT !.owed = TRUE, !.heard = TRUE,
                                        !.dropped = @ \/ sig = sigBuffer]
    /\ UNCHANGED <<pakVars, rdVars, heap, config, disk, searchPaths, dirCache, mutex, reqs, hist>>

\* the orders in which a directory may list the same names
Reorderings(names) ==
    { [i \in 1..Len(names) |-> names[f[i]]] :
        f \in { g \in [1..Len(names) -> 1..Len(names)] :
                  \A i, j \in 1..Len(names) : g[i] = g[j] => i = j } }

\* the file system returns the names of directory d in another order
Relist(d, names) ==
    /\ names # disk[d].names
    /\ disk' = [disk EXCEPT ![d].names = names]
    /\ UNCHANGED <<pakVars, rdVars, heap, config, searchPaths, dirCache, mutex, reload, sig, reqs, hist>>

(***************************************************************************)
(* Scanning one directory of archives.                                     *)
(***************************************************************************)
\* "q", the directory; "^/", its route; "", the pattern of every string
dirQ == << 113 >>

anyString == [anchored |-> FALSE, alts |-> << <<>> >>]

routeAll == [anchored |-> TRUE, alts |-> << << 47 >> >>]

\* pak0.pak, pak2.pak, custom.pak, PAK10.PAK, pak.pak, pak1.pkz, zz.pkz, a.txt
pak0 == << 112, 97, 107, 48, 46, 112, 97, 107 >>

pak2 == << 112, 97, 107, 50, 46, 112, 97, 107 >>

custom == << 99, 117, 115, 116, 111, 109, 46, 112, 97, 107 >>

PAK10 == << 80, 65, 75, 49, 48, 46, 80, 65, 75 >>

pakNoNum == << 112, 97, 107, 46, 112, 97, 107 >>

pak1z == << 112, 97, 107, 49, 46, 112, 107, 122 >>

zzz == << 122, 122, 46, 112, 107, 122 >>

aTxt == << 97, 46, 116, 120, 116 >>

ScanNames == { pak0, pak2, custom, PAK10, pakNoNum, pak1z, zzz, aTxt }

\* the listings of at most MaxNames of them
Listings ==
    UNION { { l \in [1..n -> ScanNames] : \A i, j \in 1..n : l[i] = l[j] => i = j } :
              n \in 0..MaxNames }

\* an archive without entries, and an empty zip
EmptyPak ==
    [ open |-> TRUE, zip |-> [ok |-> FALSE, File |-> <<>>],
      img |-> MkArchive(pakIdent, Wide(headerSize), Wide(0), 0, <<>>) ]

EmptyZip ==
    [ open |-> TRUE, zip |-> [ok |-> TRUE, File |-> <<>>],
      img |-> MkArchive([h |-> 1027, l |-> 19280], Wide(0), Wide(0), 0, <<>>) ]

FileFor(name) == IF HasSuffix(ToLower(name), extPkz) THEN EmptyZip ELSE EmptyPak

InitScanDir ==
    /\ IdleWriter /\ arc = EmptyImage /\ rd = NotRead /\ ext = NoExtract
    /\ \E l \in Listings, white \in {<<>>, << routeAll >>} :
          /\ config = [ SearchPaths |-> << [Match |-> routeAll, Search |-> << dirQ >>] >>,
                        PakBlackList |-> <<>>, DirWhiteList |-> white,
                        RefererCheck |-> anyString, ContentType |-> "application/octet-stream" ]
          /\ disk = (dirQ :> [ ok |-> TRUE, names |-> l, tree |-> <<>>,
                                file |-> [n \in ScanNames |-> FileFor(n)] ])
    /\ searchPaths = <<>> /\ dirCache = <<>>
    /\ mutex = [w |-> FALSE, r |-> 0, waiting |-> FALSE]
    /\ reload = [pc |-> "start", owed |-> FALSE, heard |-> FALSE, dropped |-> FALSE]
    /\ sig = 0 /\ reqs = <<>> /\ hist = <<>> /\ heap = NoHeap

NextScanDir ==
    \/ Rescan
    \/ ScansBelow(MaxScans) /\ SigHup
    \/ \E names \in Reorderings(disk[dirQ].names) : Relist(dirQ, names)

SpecScanDir == InitScanDir /\ [][NextScanDir]_vars

\* the file name of a store: its path after the last '/'
RECURSIVE BaseName(_)
BaseName(path) ==
    IF \E i \in 1..Len(path) : path[i] = 47 THEN BaseName(Tail(path)) ELSE path

\* the file names of the archives of a store list, in its order
ArchiveNames(sp) ==
    LET arch == SelectSeq(sp, LAMBDA st : ~st.isDir)
    IN  [i \in 1..Len(arch) |-> BaseName(arch[i].path)]

\* x may stand before y: a pak-prefixed name before any other, pak-prefixed
\* names by ascending number, other names ascending
AscendingPair(x, y) ==
    LET a == ToLower(x)
        b == ToLower(y)
    IN  /\ HasPrefix(b, prefixPak) => HasPrefix(a, prefixPak)
        /\ (HasPrefix(a, prefixPak) /\ HasPrefix(b, prefixPak) /\ atoi(a).ok /\ atoi(b).ok)
               => atoi(a).v <= atoi(b).v
        /\ (~HasPrefix(a, prefixPak) /\ ~HasPrefix(b, prefixPak)) => ~StrLess(b, a)

\* C9: a directory with pak0.pak, pak2.pak and custom.pak gives the store order
\* pak0.pak, pak2.pak, custom.pak; in general pak-prefixed names precede the
\* others, pak-prefixed names are in ascending order of their number, other
\* names in ascending lexicographic order, whatever the order of the listing.
C9_ScanOrder ==
    (reload.pc = "wait" /\ Len(searchPaths) = 1) =>
        LET names == ArchiveNames(searchPaths[1].search)
        IN  /\ {names[i] : i \in 1..Len(names)} = {pak0, pak2, custom}
                  => names = << pak0, pak2, custom >>
            /\ \A i, j \in 1..Len(names) : i < j => AscendingPair(names[i], names[j])
            /\ \A k \in 1..Len(hist) : hist[k] = searchPaths

(***************************************************************************)
(* findSearchPath.                                                         *)
(***************************************************************************)
\* whether str has lit at offset at
HasAt(str, at, lit) == at + Len(lit) <= Len(str) /\ SubSeq(str, at + 1, at + Len(lit)) = lit

\* the match of the pattern that starts at offset at: the first alternative
\* that matches there (leftmost-first), as <<start, end>>; <<>> when none
MatchAt(re, str, at) ==
    LET hits == { k \in 1..Len(re.alts) : HasAt(str, at, re.alts[k]) }
    IN  IF hits = {} THEN <<>>
        ELSE << at, at + Len(re.alts[CHOOSE k \in hits : \A m \in hits : k <= m]) >>

\* (*Regexp).FindStringIndex: the leftmost match, nil (<<>>) when none
FindStringIndex(re, str) ==
    LET starts == { at \in 0..(IF re.anchored THEN 0 ELSE Len(str)) : MatchAt(re, str, at) # <<>> }
    IN  IF starts = {} THEN <<>>
        ELSE MatchAt(re, str, CHOOSE at \in starts : \A b \in starts : at <= b)

\* a lookup that also takes a match no longer than the one it has
NotShorterMatch(loc, longest) == loc # <<>> /\ loc[1] = 0 /\ loc[2] >= longest

\* loc != nil && loc[0] == 0 && loc[1] > longest
BetterMatch(loc, longest) == loc # <<>> /\ loc[1] = 0 /\ loc[2] > longest

\* search == nil
NoSearch == [ok |-> FALSE, list |-> <<>>]

\* a loop body that also takes a match of length zero while no route is taken
RouteStepFirst(acc, s, path) ==
    LET loc == FindStringIndex(s.match, path)
    IN  IF loc # <<>> /\ loc[1] = 0 /\ (loc[2] > acc.longest \/ ~acc.search.ok)
        THEN [search |-> [ok |-> TRUE, list |-> s.search], longest |-> loc[2]]
        ELSE acc

\* the body of the loop over searchPaths, for the route s
RouteStep(acc, s, path) ==
    LET loc == FindStringIndex(s.match, path)
    IN  IF BetterMatch(loc, acc.longest)
        THEN [search |-> [ok |-> TRUE, list |-> s.search], longest |-> loc[2]]
        ELSE acc

RECURSIVE RouteLoop(_, _, _, _)
RouteLoop(table, i, acc, path) ==
    IF i > Len(table) THEN acc ELSE RouteLoop(table, i + 1, RouteStep(acc, table[i], path), path)

\* path = strings.ToLower(pathpkg.Clean(r.URL.Path))
LookupPath(urlPath) == ToLower(Clean(urlPath))

\* findSearchPath on a table that no reload touches meanwhile
findSearchPath(table, urlPath) ==
    LET path == LookupPath(urlPath)
        acc == RouteLoop(table, 1, [search |-> NoSearch, longest |-> 0], path)
    IN  [search |-> acc.search, path |-> SubSeq(path, acc.longest + 1, Len(path))]

\* nothing sent yet
NoResponse ==
    [ status |-> 0, header |-> <<>>, body |-> <<>>, opened |-> <<>>, closed |-> <<>>,
      from |-> [store |-> <<>>, entry |-> <<>>] ]

\* a request that has arrived
NewRequest(method, urlPath, accept, referer) ==
    [ pc |-> "new", Method |-> method, Path |-> urlPath, Accept |-> accept,
      Referer |-> referer, range |-> <<>>, i |-> 0, longest |-> 0, search |-> NoSearch,
      path |-> <<>>, resp |-> NoResponse, first |-> 0, last |-> 0, during |-> FALSE ]

\* a lookup that takes the read lock whatever a reload does
CanRLockAlways(mu) == TRUE

\* (*RWMutex).RLock returns: no writer holds the lock and none waits for it
CanRLock(mu) == ~mu.w /\ ~mu.waiting

\* scanSearchPaths is between its call of Lock and its Unlock
Reloading == reload.pc \in {"locking", "locked", "scan"}

\* the call of findSearchPath by the handler of request id
Lookup(id) ==
    /\ reqs[id].pc = "new"
    /\ CanRLock(mutex)
    /\ LET r == findSearchPath(searchPaths, reqs[id].Path)
       IN  reqs' = [reqs EXCEPT ![id].pc = "found", ![id].i = Len(searchPaths),
                                ![id].longest = Len(LookupPath(reqs[id].Path)) - Len(r.path),
                                ![id].search = r.search, ![id].path = r.path,
                                ![id].range = searchPaths, ![id].last = Len(hist)]
    /\ UNCHANGED <<pakVars, rdVars, heap, config, disk, searchPaths, dirCache, mutex, reload, sig, hist>>

(***************************************************************************)
(* Route resolution on the tables of small configurations.                 *)
(***************************************************************************)
\* ^/   ^/a/   ^/a/b/   ^   /b/   ^(/a|/a/b)
RoutePatterns ==
    { [anchored |-> TRUE, alts |-> << << 47 >> >>],
      [anchored |-> TRUE, alts |-> << << 47, 97, 47 >> >>],
      [anchored |-> TRUE, alts |-> << << 47, 97, 47, 98, 47 >> >>],
      [anchored |-> TRUE, alts |-> << <<>> >>],
      [anchored |-> FALSE, alts |-> << << 47, 98, 47 >> >>],
      [anchored |-> TRUE, alts |-> << << 47, 97 >>, << 47, 97, 47, 98 >> >>] }

\* the directory that route i searches
RouteDir(i) == << 100 + i >>

\* request paths: '/' and up to MaxPathLen of '/', 'a', 'b', '.', and
\* /a/b/c, /A/b/C, /a/../a/b/c
UrlPaths ==
    UNION { { << 47 >> \o t : t \in [1..n -> {47, 97, 98, 46}] } : n \in 0..MaxPathLen }
    \cup { << 47, 97, 47, 98, 47, 99 >>, << 47, 65, 47, 98, 47, 67 >>,
           << 47, 97, 47, 46, 46, 47, 97, 47, 98, 47, 99 >> }

\* the server after main's scanSearchPaths, for a configuration and a disk:
\* at pc "main" before waitForSignal has called signal.Notify, at "wait" after
Booted(pc, cfg, dsk) ==
    /\ config = cfg
    /\ disk = dsk
    /\ \E t \in { BuildTable(dsk, cfg) } :
          /\ searchPaths = t.table
          /\ dirCache = t.cache
          /\ hist = << t.table >>
    /\ mutex = [w |-> FALSE, r |-> 0, waiting |-> FALSE]
    /\ reload = [pc |-> pc, owed |-> FALSE, heard |-> FALSE, dropped |-> FALSE]
    /\ sig = 0
    /\ reqs = <<>>
    /\ heap = NoHeap

Started(cfg, dsk) == Booted("wait", cfg, dsk)

InitRoute ==
    /\ IdleWriter /\ arc = EmptyImage /\ rd = NotRead /\ ext = NoExtract
    /\ \E n \in 1..MaxRoutes : \E pats \in [1..n -> RoutePatterns] :
          Started([ SearchPaths |-> [i \in 1..n |-> [Match |-> pats[i], Search |-> << RouteDir(i) >>]],
                    PakBlackList |-> <<>>, DirWhiteList |-> << pats[1] >>,
                    RefererCheck |-> anyString, ContentType |-> "application/octet-stream" ],
                  [d \in {RouteDir(i) : i \in 1..n} |->
                      [ok |-> TRUE, names |-> <<>>, tree |-> <<>>, file |-> <<>>]])

\* a request arrives
Arrive(method, urlPath, accept, referer) ==
    /\ Len(reqs) < MaxReqs
    /\ reload.pc # "exited"
    /\ reqs' = Append(reqs, [NewRequest(method, urlPath, accept, referer)
                                EXCEPT !.first = Len(hist), !.during = Reloading])
    /\ UNCHANGED <<pakVars, rdVars, heap, config, disk, searchPaths, dirCache, mutex, reload, sig, hist>>

\* one request in a behaviour: a lookup depends on the table and its own
\* path only
NextRoute ==
    \/ \E p \in UrlPaths : reqs = <<>> /\ Arrive("GET", p, <<>>, <<>>)
    \/ \E id \in 1..Len(reqs) : Lookup(id)

SpecRoute == InitRoute /\ [][NextRoute]_vars

\* the routes that match the lookup path of str at offset 0, with their match ends
MatchEnd(s, str) == FindStringIndex(s.match, LookupPath(str))[2]

Matching(table, str) ==
    { i \in 1..Len(table) :
        LET loc == FindStringIndex(table[i].match, LookupPath(str))
        IN  loc # <<>> /\ loc[1] = 0 }

\* request rq got the stores of route i and the path after the match of route i
Resolved(rq, table, i) ==
    /\ rq.search = [ok |-> TRUE, list |-> table[i].search]
    /\ rq.path = SubSeq(LookupPath(rq.Path), MatchEnd(table[i], rq.Path) + 1,
                        Len(LookupPath(rq.Path)))

\* among the routes of M the earliest with the greatest match end was taken
LongestOf(rq, table, M) ==
    M # {} =>
        \E i \in M :
            /\ \A j \in M : MatchEnd(table[j], rq.Path) < MatchEnd(table[i], rq.Path)
                            \/ (MatchEnd(table[j], rq.Path) = MatchEnd(table[i], rq.Path) /\ i <= j)
            /\ Resolved(rq, table, i)

\* routes ^/a/ and ^/a/b/ with request /a/b/c give route ^/a/b/ and asset path c
IsExample(rq, table) ==
    /\ Len(table) = 2
    /\ table[1].match = [anchored |-> TRUE, alts |-> << << 47, 97, 47 >> >>]
    /\ table[2].match = [anchored |-> TRUE, alts |-> << << 47, 97, 47, 98, 47 >> >>]
    /\ rq.Path = << 47, 97, 47, 98, 47, 99 >>

ExampleHolds(rq, table) ==
    IsExample(rq, table) => (rq.search.list = table[2].search /\ rq.path = << 99 >>)

\* C8 as stated: among the routes whose pattern matches at offset 0 of the
\* cleaned, lowercased path the one with the greatest match end is selected,
\* the earliest on equal ends, and the asset path is the path without it.
C8_LongestMatch ==
    \A id \in 1..Len(reqs) :
        reqs[id].pc = "found" =>
            /\ LongestOf(reqs[id], searchPaths, Matching(searchPaths, reqs[id].Path))
            /\ ExampleHolds(reqs[id], searchPaths)

\* C8 amended: the same among the routes whose match at offset 0 is not empty.
C8_LongestNonEmptyMatch ==
    \A id \in 1..Len(reqs) :
        reqs[id].pc = "found" =>
            /\ LongestOf(reqs[id], searchPaths,
                         { i \in Matching(searchPaths, reqs[id].Path) :
                             MatchEnd(searchPaths[i], reqs[id].Path) > 0 })
            /\ ExampleHolds(reqs[id], searchPaths)

\* the lookup of /a/b/c under ^/a/ and ^/a/b/ has returned
C8_Witness ==
    \E id \in 1..Len(reqs) :
        /\ reqs[id].pc = "found" /\ IsExample(reqs[id], searchPaths)
        /\ reqs[id].path = << 99 >>

(***************************************************************************)
(* The handler.  A response is what the handler gave the ResponseWriter:   *)
(* the status, the headers it set, the body bytes it wrote, and the files  *)
(* it opened on the way.                                                   *)
(***************************************************************************)
\* strings.Split(str, ",")
RECURSIVE Split(_, _)
Split(str, piece) ==
    IF str = <<>> THEN << piece >>
    ELSE IF str[1] = 44 THEN << piece >> \o Split(Tail(str), <<>>)
    ELSE Split(Tail(str), Append(piece, str[1]))

IsSpace(c) == c \in {9, 10, 11, 12, 13, 32}

\* strings.TrimSpace
RECURSIVE TrimSpace(_)
TrimSpace(str) ==
    IF str = <<>> THEN str
    ELSE IF IsSpace(str[1]) THEN TrimSpace(Tail(str))
    ELSE IF IsSpace(str[Len(str)]) THEN TrimSpace(SubSeq(str, 1, Len(str) - 1))
    ELSE str

\* "gzip", "deflate"
encGzip == << 103, 122, 105, 112 >>

encDeflate == << 100, 101, 102, 108, 97, 116, 101 >>

\* parseAcceptEncoding over r.Header["Accept-Encoding"]
parseAcceptEncoding(values) ==
    LET encs == UNION { { ToLower(TrimSpace(Split(values[i], <<>>)[k])) :
                            k \in 1..Len(Split(values[i], <<>>)) } : i \in 1..Len(values) }
    IN  [hasGzip |-> encGzip \in encs, hasDeflate |-> encDeflate \in encs]

\* (*Regexp).MatchString, matchRegexpList
MatchString(re, str) == FindStringIndex(re, str) # <<>>

\* a list that matches nothing
matchRegexpListNone(list, str) == FALSE

matchRegexpList(list, str) == \E i \in 1..Len(list) : MatchString(list[i], str)

\* strconv.FormatInt(v, 10) for v >= 0
RECURSIVE FormatInt(_)
FormatInt(v) ==
    LET low == (v.h % 10) * 65536 + v.l
    IN  IF v.h = 0 /\ v.l < 10 THEN << 48 + v.l >>
        ELSE Append(FormatInt([h |-> v.h \div 10, l |-> low \div 10]), 48 + (low % 10))

\* the bytes of a run-length string
RECURSIVE RunsBytes(_)
RunsBytes(r) == IF r = <<>> THEN <<>> ELSE Rep(r[1].b, r[1].n) \o RunsBytes(Tail(r))

\* io.Copy(w, io.NewSectionReader(f, entry.offset, int64(entry.size)))
SectionBytes(img, entry) ==
    LET clip(x) == IF WLess(x, Wide(ImgSize(img))) THEN WVal(x) ELSE ImgSize(img)
    IN  RunsBytes(ImgRuns(img, clip(entry.offset), clip(WAdd(entry.offset, entry.size))))

\* flate.NewReader: the compressed stream is a list of (count, byte) pairs
\* that stand for count copies of byte; a stream that ends within a pair is
\* corrupt and yields the bytes before the error
RECURSIVE Inflate(_)
Inflate(data) ==
    IF Len(data) < 2 THEN <<>> ELSE Rep(data[2], data[1]) \o Inflate(SubSeq(data, 3, Len(data)))

\* the ten bytes before and the eight bytes after the stream in handleGzip
GzipHeader(entry) == << 31, 139, 8, 0 >> \o LE32(entry.mtime) \o << 0, 3 >>

\* a trailer with the uncompressed size before the CRC-32
GzipTrailerSwapped(entry) == LE32(entry.filelen) \o LE32(entry.filecrc)

GzipTrailer(entry) == LE32(entry.filecrc) \o LE32(entry.filelen)

\* what the handle functions add to the response rs; get is r != nil
handleGzip(rs, entry, data, get) ==
    [rs EXCEPT !.status = 200,
               !.header = MapSet(MapSet(@, "Content-Length", FormatInt(WAdd(entry.size, Wide(18)))),
                                 "Content-Encoding", "gzip"),
               !.body = IF get THEN GzipHeader(entry) \o data \o GzipTrailer(entry) ELSE <<>>]

handleRaw(rs, entry, data, get) ==
    [rs EXCEPT !.status = 200,
               !.header = IF entry.method # 0
                          THEN MapSet(MapSet(@, "Content-Length", FormatInt(entry.size)),
                                      "Content-Encoding", "deflate")
                          ELSE MapSet(@, "Content-Length", FormatInt(entry.size)),
               !.body = IF get THEN data ELSE <<>>]

handleInflate(rs, entry, data, get) ==
    [rs EXCEPT !.status = 200,
               !.header = MapSet(@, "Content-Length", FormatInt(entry.filelen)),
               !.body = IF get THEN Inflate(data) ELSE <<>>]

\* a handler that prefers deflate to gzip
StrategyDeflateFirst(method, hasGzip, hasDeflate) ==
    IF method # 0
    THEN IF hasDeflate THEN "raw" ELSE IF hasGzip THEN "gzip" ELSE "inflate"
    ELSE "raw"

\* the switch of the handler on entry.method, hasGzip, hasDeflate
Strategy(method, hasGzip, hasDeflate) ==
    IF method # 0
    THEN IF hasGzip THEN "gzip" ELSE IF hasDeflate THEN "raw" ELSE "inflate"
    ELSE "raw"

\* the archive file of a store path: directory and name; the file as os.Open
\* finds it now
DirOfPath(dsk, path) ==
    CHOOSE d \in DOMAIN dsk : HasPrefix(path, d \o << 47 >>) /\ BaseName(path) \in DOMAIN dsk[d].file

FileOfPath(dsk, path) ==
    IF \E d \in DOMAIN dsk : HasPrefix(path, d \o << 47 >>) /\ BaseName(path) \in DOMAIN dsk[d].file
    THEN dsk[DirOfPath(dsk, path)].file[BaseName(path)]
    ELSE [open |-> FALSE, img |-> EmptyImage, zip |-> [ok |-> FALSE, File |-> <<>>]]

\* the entry found in an archive store: the response for it
ServeEntry(rs, cfg, dsk, rq, st, entry) ==
    LET f == FileOfPath(dsk, st.path)
        get == rq.Method # "HEAD"
        data == IF get THEN SectionBytes(f.img, entry) ELSE <<>>
        enc == parseAcceptEncoding(rq.Accept)
        r1 == [rs EXCEPT !.opened = Append(@, st.path),
                         !.header = MapSet(@, "Content-Type", cfg.ContentType),
                         !.from = [store |-> st.path, entry |-> entry]]
        how == Strategy(entry.method, enc.hasGzip, enc.hasDeflate)
    IN  IF how = "gzip" THEN handleGzip(r1, entry, data, get)
        ELSE IF how = "raw" THEN handleRaw(r1, entry, data, get)
        ELSE handleInflate(r1, entry, data, get)

\* what os.Open finds at a path below a directory store: http.ServeContent of
\* it. A node of the tree is [isDir, seek, data]: seek is what Seek(0, SeekEnd)
\* returns, << size >> or <<>> for an error; reading a directory yields no
\* bytes. The request carries no range or conditional headers.
ServeFile(rs, cfg, rq, st, node) ==
    LET r1 == [rs EXCEPT !.opened = Append(@, Join(st.path, rq.path)),
                         !.from = [store |-> st.path, entry |-> <<>>]]
    IN  IF node.seek = <<>>
        THEN [r1 EXCEPT !.status = 500,
                        !.header = MapSet(MapSet(@, "Content-Type", "text/plain; charset=utf-8"),
                                          "X-Content-Type-Options", "nosniff"),
                        !.body = << 115, 101, 101, 107, 101, 114, 32, 99, 97, 110, 39, 116,
                                    32, 115, 101, 101, 107, 10 >>]
        ELSE [r1 EXCEPT !.status = 200,
                        !.header = MapSet(MapSet(MapSet(@, "Content-Type", cfg.ContentType),
                                                 "Accept-Ranges", "bytes"),
                                          "Content-Length", FormatInt(node.seek[1])),
                        !.body = IF rq.Method # "HEAD" /\ ~node.isDir THEN node.data ELSE <<>>]

\* a handler that answers 500 when os.Open of the archive fails
ReopenFailedError(rs, next) == [rs EXCEPT !.status = 500]

\* os.Open of the archive of a store fails: continue with the stores after it
ReopenFailed(rs, next) == next

\* the loop of the handler over search, from store k on
RECURSIVE ServeFrom(_, _, _, _, _, _, _)
ServeFrom(rs, cfg, dsk, rq, k, allowPak, allowDir) ==
    IF k > Len(rq.search.list) THEN [rs EXCEPT !.status = 404]
    ELSE LET st == rq.search.list[k]
             next == ServeFrom(rs, cfg, dsk, rq, k + 1, allowPak, allowDir)
         IN  IF st.isDir
             THEN IF allowDir /\ st.path \in DOMAIN dsk /\ rq.path \in DOMAIN dsk[st.path].tree
                  THEN ServeFile(rs, cfg, rq, st, dsk[st.path].tree[rq.path])
                  ELSE next
             ELSE IF ~allowPak \/ rq.path \notin DOMAIN st.files THEN next
             ELSE IF ~FileOfPath(dsk, st.path).open THEN ReopenFailed(rs, next)
             ELSE ServeEntry(rs, cfg, dsk, rq, st, st.files[rq.path])

\* a referer mismatch answered as not found
ForbiddenAsNotFound(rs) == [rs EXCEPT !.status = 404]

\* closeWithError on HTTP/1.1
Forbidden(rs) == [rs EXCEPT !.status = 403, !.header = MapSet(@, "Connection", "close")]

\* a handler that answers 403 when both gates reject the asset path
RespondForbidden(cfg, dsk, rq) ==
    LET allowPak == ~matchRegexpList(cfg.PakBlackList, rq.path)
        allowDir == matchRegexpList(cfg.DirWhiteList, rq.path)
    IN  IF ~rq.search.ok \/ Len(rq.path) = 0 THEN [NoResponse EXCEPT !.status = 404]
        ELSE IF ~allowPak /\ ~allowDir THEN [NoResponse EXCEPT !.status = 403]
        ELSE ServeFrom(NoResponse, cfg, dsk, rq, 1, allowPak, allowDir)

\* the handler after findSearchPath has set rq.search and rq.path
Respond(cfg, dsk, rq) ==
    LET allowPak == ~matchRegexpList(cfg.PakBlackList, rq.path)
        allowDir == matchRegexpList(cfg.DirWhiteList, rq.path)
    IN  IF ~rq.search.ok \/ Len(rq.path) = 0 THEN [NoResponse EXCEPT !.status = 404]
        ELSE IF ~allowPak /\ ~allowDir THEN [NoResponse EXCEPT !.status = 404]
        ELSE ServeFrom(NoResponse, cfg, dsk, rq, 1, allowPak, allowDir)

\* a handler that returns without closing what it opened
ReturnOpen(rs) == rs

\* the handler returns: f.Close() after http.ServeContent, the deferred
\* f.Close() of the archive
Return(rs) == [rs EXCEPT !.closed = rs.opened]

\* handler(w, r) for request id, while no reload is running
Handle(id) ==
    /\ reqs[id].pc = "new"
    /\ CanRLock(mutex)
    /\ IF ~MatchString(config.RefererCheck, reqs[id].Referer)
       THEN reqs' = [reqs EXCEPT ![id].pc = "done", ![id].resp = Forbidden(NoResponse)]
       ELSE LET r == findSearchPath(searchPaths, reqs[id].Path)
                rq == [reqs[id] EXCEPT !.pc = "done", !.i = Len(searchPaths),
                                       !.longest = Len(LookupPath(reqs[id].Path)) - Len(r.path),
                                       !.search = r.search, !.path = r.path,
                                       !.range = searchPaths, !.last = Len(hist)]
            IN  reqs' = [reqs EXCEPT ![id] = [rq EXCEPT !.resp = Return(Respond(config, disk, rq))]]
    /\ UNCHANGED <<pakVars, rdVars, heap, config, disk, searchPaths, dirCache, mutex, reload, sig, hist>>

(***************************************************************************)
(* Serving the entries of one zip archive, q/z.pkz, under the route ^/.    *)
(***************************************************************************)
\* "z.pkz"; the entry names "s" and "d"; the request paths /s /d /D /x
zPkz == << 122, 46, 112, 107, 122 >>

ServePaths == { << 47, 115 >>, << 47, 100 >>, << 47, 68 >>, << 47, 120 >> }

\* the bytes of entry s, stored, and of entry d, a stream of two pairs
storedS == << 5, 0, 6 >>

streamD == << 2, 9, 1, 8 >>

\* Accept-Encoding header lines: none; gzip; deflate; "gzip, deflate";
\* deflate and GZIP on two lines; " Deflate ,br"; br; "gzip;q=0"
AcceptLines ==
    { <<>>, << encGzip >>, << encDeflate >>,
      << encGzip \o << 44, 32 >> \o encDeflate >>,
      << encDeflate, << 71, 90, 73, 80 >> >>,
      << << 32, 68, 101, 102, 108, 97, 116, 101, 32, 44, 98, 114 >> >>,
      << << 98, 114 >> >>,
      << encGzip \o << 59, 113, 61, 48 >> >> }

\* the archive: method and sizes of entry d as the central directory of the
\* zip states them, which need not be what the file holds
ZipOf(method, csize, usize, modified) ==
    [ open |-> TRUE,
      img |-> [ hdr |-> << 80, 75, 3, 4, 0, 0, 0, 0, 0, 0, 0, 0 >>,
                body |-> ToRuns(storedS \o streamD), dir |-> <<>>, dirLen |-> 0 ],
      zip |-> [ ok |-> TRUE,
                File |-> << [ Name |-> << 115 >>, ofsOk |-> TRUE, ofs |-> Wide(headerSize),
                              isDir |-> FALSE, CompressedSize |-> Wide(Len(storedS)),
                              UncompressedSize |-> Wide(Len(storedS)),
                              CRC32 |-> [h |-> 4660, l |-> 22136], Modified |-> modified,
                              Method |-> 0 ],
                            [ Name |-> << 100 >>, ofsOk |-> TRUE,
                              ofs |-> Wide(headerSize + Len(storedS)),
                              isDir |-> FALSE, CompressedSize |-> csize,
                              UncompressedSize |-> usize,
                              CRC32 |-> [h |-> 51966, l |-> 47806], Modified |-> modified,
                              Method |-> method ] >> ] ]

InitServe ==
    /\ IdleWriter /\ arc = EmptyImage /\ rd = NotRead /\ ext = NoExtract
    /\ \E method \in {8, 9}, csize \in {Wide(Len(streamD)), Wide(3), WSub(WideMax, Wide(1))},
          usize \in {Wide(3), Wide(2)}, modified \in {Wide(0), [h |-> 25000, l |-> 4660]} :
          Started([ SearchPaths |-> << [Match |-> routeAll, Search |-> << dirQ >>] >>,
                    PakBlackList |-> <<>>, DirWhiteList |-> <<>>,
                    RefererCheck |-> anyString, ContentType |-> "application/octet-stream" ],
                  (dirQ :> [ ok |-> TRUE, names |-> << zPkz >>, tree |-> <<>>,
                             file |-> (zPkz :> ZipOf(method, csize, usize, modified)) ]))

NextServe ==
    \/ \E m \in {"GET", "HEAD"}, p \in ServePaths, a \in AcceptLines : Arrive(m, p, a, <<>>)
    \/ \E id \in 1..Len(reqs) : Handle(id)

SpecServe == InitServe /\ [][NextServe]_vars

\* the bytes the archive file holds for the entry a response was made from
StoredBytes(rs) == SectionBytes(FileOfPath(disk, rs.from.store).img, rs.from.entry)

HasNo(rs, name) == name \notin DOMAIN rs.header

Has(rs, name, value) == name \in DOMAIN rs.header /\ rs.header[name] = value

\* C10: the response for an archive entry is decided by (method, accepts gzip,
\* accepts deflate): method 0 gives Content-Length = stored size, no
\* Content-Encoding and the raw bytes; non-zero with gzip accepted gives gzip
\* and stored size + 18, also when deflate is accepted; non-zero with deflate
\* only gives deflate, stored size and the stored bytes; non-zero with neither
\* gives no Content-Encoding, the declared uncompressed size and the inflated
\* bytes.
C10_Negotiation ==
    \A id \in 1..Len(reqs) :
        (reqs[id].pc = "done" /\ reqs[id].resp.from.entry # <<>>) =>
            LET rs == reqs[id].resp
                e == rs.from.entry
                get == reqs[id].Method = "GET"
                enc == parseAcceptEncoding(reqs[id].Accept)
            IN  /\ rs.status = 200
                /\ e.method = 0 =>
                      /\ Has(rs, "Content-Length", FormatInt(e.size))
                      /\ HasNo(rs, "Content-Encoding")
                      /\ get => rs.body = StoredBytes(rs)
                /\ (e.method # 0 /\ enc.hasGzip) =>
                      /\ Has(rs, "Content-Length", FormatInt(WAdd(e.size, Wide(18))))
                      /\ Has(rs, "Content-Encoding", "gzip")
                /\ (e.method # 0 /\ ~enc.hasGzip /\ enc.hasDeflate) =>
                      /\ Has(rs, "Content-Length", FormatInt(e.size))
                      /\ Has(rs, "Content-Encoding", "deflate")
                      /\ get => rs.body = StoredBytes(rs)
                /\ (e.method # 0 /\ ~enc.hasGzip /\ ~enc.hasDeflate) =>
                      /\ Has(rs, "Content-Length", FormatInt(e.filelen))
                      /\ HasNo(rs, "Content-Encoding")
                      /\ get => rs.body = Inflate(StoredBytes(rs))

\* a deflated entry was sent to a client that accepts gzip and deflate
C10_Witness ==
    \E id \in 1..Len(reqs) :
        /\ reqs[id].pc = "done" /\ reqs[id].Method = "GET"
        /\ reqs[id].resp.from.entry # <<>> /\ reqs[id].resp.from.entry.method # 0
        /\ parseAcceptEncoding(reqs[id].Accept) = [hasGzip |-> TRUE, hasDeflate |-> TRUE]
        /\ Has(reqs[id].resp, "Content-Encoding", "gzip")

\* byte k (0 the lowest) of a 32-bit value
ByteOf(v, k) ==
    IF k = 0 THEN v.l % 256 ELSE IF k = 1 THEN v.l \div 256
    ELSE IF k = 2 THEN v.h % 256 ELSE (v.h \div 256) % 256

\* C11: the body of a deflate entry sent with gzip is the ten bytes 1F 8B 08
\* 00, mtime in little-endian order, 00, 03, then the stored bytes unmodified,
\* then CRC-32 and uncompressed size in little-endian order; the body has as
\* many bytes as Content-Length says when the file holds the whole stored size.
C11_GzipFraming ==
    \A id \in 1..Len(reqs) :
        (/\ reqs[id].pc = "done" /\ reqs[id].Method = "GET"
         /\ reqs[id].resp.from.entry # <<>>
         /\ Has(reqs[id].resp, "Content-Encoding", "gzip")) =>
            LET rs == reqs[id].resp
                e == rs.from.entry
                stored == StoredBytes(rs)
                n == Len(stored)
            IN  /\ Len(rs.body) = n + 18
                /\ SubSeq(rs.body, 1, 4) = << 31, 139, 8, 0 >>
                /\ \A k \in 0..3 : rs.body[5 + k] = ByteOf(e.mtime, k)
                /\ SubSeq(rs.body, 9, 10) = << 0, 3 >>
                /\ SubSeq(rs.body, 11, 10 + n) = stored
                /\ \A k \in 0..3 : rs.body[11 + n + k] = ByteOf(e.filecrc, k)
                /\ \A k \in 0..3 : rs.body[15 + n + k] = ByteOf(e.filelen, k)
                /\ Wide(n) = e.size =>
                      Has(rs, "Content-Length", FormatInt(Wide(Len(rs.body))))

\* a gzip response whose entry has a modification time with four different
\* bytes and whose stored bytes are all in the file
C11_Witness ==
    \E id \in 1..Len(reqs) :
        /\ reqs[id].pc = "done" /\ reqs[id].Method = "GET"
        /\ reqs[id].resp.from.entry # <<>>
        /\ Has(reqs[id].resp, "Content-Encoding", "gzip")
        /\ reqs[id].resp.from.entry.mtime # Wide(0)
        /\ Wide(Len(StoredBytes(reqs[id].resp))) = reqs[id].resp.from.entry.size
        /\ Len(reqs[id].resp.body) = 22

\* the value of a response header, <<>> when it is not set
HeaderValue(rs, name) == IF name \in DOMAIN rs.header THEN << rs.header[name] >> ELSE <<>>

\* C12: a HEAD request that resolves to an archive entry has the status,
\* Content-Type, Content-Length and Content-Encoding of the GET with the same
\* path and Accept-Encoding, writes no body byte and does not open the
\* archive's file.
C12_Head ==
    \A id \in 1..Len(reqs) :
        (/\ reqs[id].pc = "done" /\ reqs[id].Method = "HEAD"
         /\ reqs[id].resp.from.entry # <<>>) =>
            LET rs == reqs[id].resp
                get == Respond(config, disk, [reqs[id] EXCEPT !.Method = "GET"])
            IN  /\ rs.status = get.status
                /\ \A name \in {"Content-Type", "Content-Length", "Content-Encoding"} :
                      HeaderValue(rs, name) = HeaderValue(get, name)
                /\ rs.body = <<>>
                /\ rs.opened = <<>>

(***************************************************************************)
(* Lookups while the table is reloaded: findSearchPath and scanSearchPaths *)
(* statement by statement, each in its own goroutine, under                *)
(* searchPathsMutex.                                                       *)
(***************************************************************************)
\* searchPathsMutex.RLock() in findSearchPath, after path has been cleaned
FindRLock(id) ==
    /\ reqs[id].pc = "new"
    /\ reload.pc # "exited"
    /\ MatchString(config.RefererCheck, reqs[id].Referer)
    /\ CanRLock(mutex)
    /\ mutex' = [mutex EXCEPT !.r = @ + 1]
    /\ reqs' = [reqs EXCEPT ![id].pc = "rlocked", ![id].path = LookupPath(reqs[id].Path),
                            ![id].longest = 0, ![id].search = NoSearch]
    /\ UNCHANGED <<pakVars, rdVars, heap, config, disk, searchPaths, dirCache, reload, sig, hist>>

\* range searchPaths: the slice is read once, when the loop begins
FindRange(id) ==
    /\ reqs[id].pc = "rlocked"
    /\ reqs' = [reqs EXCEPT ![id].pc = "loop", ![id].range = searchPaths, ![id].i = 0]
    /\ UNCHANGED <<pakVars, rdVars, heap, config, disk, searchPaths, dirCache, mutex, reload, sig, hist>>

\* one iteration of the loop
FindStep(id) ==
    /\ reqs[id].pc = "loop"
    /\ reqs[id].i < Len(reqs[id].range)
    /\ LET acc == RouteStep([search |-> reqs[id].search, longest |-> reqs[id].longest],
                            reqs[id].range[reqs[id].i + 1], reqs[id].path)
       IN  reqs' = [reqs EXCEPT ![id].i = @ + 1, ![id].search = acc.search,
                                ![id].longest = acc.longest]
    /\ UNCHANGED <<pakVars, rdVars, heap, config, disk, searchPaths, dirCache, mutex, reload, sig, hist>>

\* a findSearchPath that returns without RUnlock
FindReturnHeld(id) ==
    /\ reqs[id].pc = "loop"
    /\ reqs[id].i = Len(reqs[id].range)
    /\ reqs' = [reqs EXCEPT ![id].pc = "found", ![id].last = Len(hist),
                            ![id].path = SubSeq(@, reqs[id].longest + 1, Len(@))]
    /\ UNCHANGED <<pakVars, rdVars, heap, config, disk, searchPaths, dirCache, mutex, reload, sig, hist>>

\* return search, path[longest:], and the deferred RUnlock
FindReturn(id) ==
    /\ reqs[id].pc = "loop"
    /\ reqs[id].i = Len(reqs[id].range)
    /\ mutex' = [mutex EXCEPT !.r = @ - 1]
    /\ reqs' = [reqs EXCEPT ![id].pc = "found", ![id].last = Len(hist),
                            ![id].path = SubSeq(@, reqs[id].longest + 1, Len(@))]
    /\ UNCHANGED <<pakVars, rdVars, heap, config, disk, searchPaths, dirCache, reload, sig, hist>>

\* the handler from the return of findSearchPath to its own return
Serve(id) ==
    /\ reqs[id].pc = "found"
    /\ reload.pc # "exited"
    /\ reqs' = [reqs EXCEPT ![id].pc = "done", ![id].resp = Return(Respond(config, disk, reqs[id]))]
    /\ UNCHANGED <<pakVars, rdVars, heap, config, disk, searchPaths, dirCache, mutex, reload, sig, hist>>

\* <-c in waitForSignal
TakeSignal ==
    /\ reload.pc = "wait"
    /\ sig > 0
    /\ sig' = sig - 1
    /\ reload' = [reload EXCEPT !.pc = "taken"]
    /\ UNCHANGED <<pakVars, rdVars, heap, config, disk, searchPaths, dirCache, mutex, reqs, hist>>

\* searchPathsMutex.Lock() is called: from now on RLock blocks; the lookups
\* that hold the read lock or wait for it meet this reload
LockBegin ==
    /\ reload.pc = "taken"
    /\ mutex' = [mutex EXCEPT !.waiting = TRUE]
    /\ reload' = [reload EXCEPT !.pc = "locking", !.owed = FALSE, !.heard = FALSE]
    /\ reqs' = [id \in 1..Len(reqs) |->
                  IF reqs[id].pc \in {"new", "rlocked", "loop"}
                  THEN [reqs[id] EXCEPT !.during = TRUE] ELSE reqs[id]]
    /\ UNCHANGED <<pakVars, rdVars, heap, config, disk, searchPaths, dirCache, sig, hist>>

\* searchPathsMutex.Lock() returns: the readers have left
LockDone ==
    /\ reload.pc = "locking"
    /\ mutex.r = 0
    /\ mutex' = [mutex EXCEPT !.w = TRUE, !.waiting = FALSE]
    /\ reload' = [reload EXCEPT !.pc = "locked"]
    /\ UNCHANGED <<pakVars, rdVars, heap, config, disk, searchPaths, dirCache, sig, reqs, hist>>

\* searchPaths = make(...); dirCache = make(...)
ResetTable ==
    /\ reload.pc = "locked"
    /\ searchPaths' = <<>>
    /\ dirCache' = <<>>
    /\ reload' = [reload EXCEPT !.pc = "scan"]
    /\ UNCHANGED <<pakVars, rdVars, heap, config, disk, mutex, sig, reqs, hist>>

\* one iteration of the loop over config.SearchPaths
ScanStep ==
    /\ reload.pc = "scan"
    /\ Len(searchPaths) < Len(config.SearchPaths)
    /\ \E t \in { ScanRoute([fatal |-> FALSE, table |-> searchPaths, cache |-> dirCache], disk,
                            config, config.SearchPaths[Len(searchPaths) + 1]) } :
           /\ dirCache' = t.cache
           /\ searchPaths' = t.table
           /\ reload' = IF t.fatal THEN [reload EXCEPT !.pc = "exited"] ELSE reload
    /\ UNCHANGED <<pakVars, rdVars, heap, config, disk, mutex, sig, reqs, hist>>

\* the deferred searchPathsMutex.Unlock(): the table is published
Unlock ==
    /\ reload.pc = "scan"
    /\ Len(searchPaths) = Len(config.SearchPaths)
    /\ mutex' = [mutex EXCEPT !.w = FALSE]
    /\ reload' = [reload EXCEPT !.pc = "wait"]
    /\ hist' = Append(hist, searchPaths)
    /\ UNCHANGED <<pakVars, rdVars, heap, config, disk, searchPaths, dirCache, sig, reqs>>

\* the archive n is removed from directory d
Unlink(d, n) ==
    /\ \E k \in 1..Len(disk[d].names) : disk[d].names[k] = n
    /\ disk' = [disk EXCEPT ![d].names = SelectSeq(@, LAMBDA m : m # n),
                            ![d].file = [m \in DOMAIN @ \ {n} |-> @[m]]]
    /\ UNCHANGED <<pakVars, rdVars, heap, config, searchPaths, dirCache, mutex, reload, sig, reqs, hist>>

\* the routes ^/ and ^/a/ over the directories e and f; /x, /A/../a/X
routeA == [anchored |-> TRUE, alts |-> << << 47, 97, 47 >> >>]

dirE == << 101 >>

dirF == << 102 >>

ReloadPaths == { << 47, 120 >>, << 47, 65, 47, 46, 46, 47, 97, 47, 88 >> }

InitReload ==
    /\ IdleWriter /\ arc = EmptyImage /\ rd = NotRead /\ ext = NoExtract
    /\ \E sa \in { << dirF >>, << dirE >>, << dirF, dirE >> } :
          Started([ SearchPaths |-> << [Match |-> routeAll, Search |-> << dirE >>],
                                       [Match |-> routeA, Search |-> sa] >>,
                    PakBlackList |-> <<>>, DirWhiteList |-> << routeAll >>,
                    RefererCheck |-> anyString, ContentType |-> "application/octet-stream" ],
                  (dirE :> [ ok |-> TRUE, names |-> << pak0 >>, tree |-> <<>>,
                             file |-> [n \in {pak0} |-> EmptyPak] ])
                  @@ (dirF :> [ ok |-> TRUE, names |-> << custom >>, tree |-> <<>>,
                                file |-> [n \in {custom} |-> EmptyPak] ]))

NextReload ==
    \/ \E p \in ReloadPaths : Arrive("GET", p, <<>>, <<>>)
    \/ \E id \in 1..Len(reqs) : FindRLock(id)
    \/ \E id \in 1..Len(reqs) : FindRange(id)
    \/ \E id \in 1..Len(reqs) : FindStep(id)
    \/ \E id \in 1..Len(reqs) : FindReturn(id)
    \/ \E id \in 1..Len(reqs) : Serve(id)
    \/ ScansBelow(MaxScans) /\ SigHup
    \/ TakeSignal
    \/ LockBegin
    \/ LockDone
    \/ ResetTable
    \/ ScanStep
    \/ Unlock
    \/ \E d \in DOMAIN disk : \E k \in 1..Len(disk[d].names) : Unlink(d, disk[d].names[k])

SpecReload == InitReload /\ [][NextReload]_vars

\* what findSearchPath returns for request id on the complete table hist[k]
OnTable(id, k) == findSearchPath(hist[k], reqs[id].Path)

\* C6: every lookup returns the list paired with the winning route of one
\* complete published table, the one published when the request arrived or
\* one published until the lookup returned; never a result of an empty or
\* partly rebuilt table.
C6_ReloadAtomic ==
    \A id \in 1..Len(reqs) :
        reqs[id].pc \in {"found", "done"} =>
            \E k \in reqs[id].first..reqs[id].last :
                /\ reqs[id].search = OnTable(id, k).search
                /\ reqs[id].path = OnTable(id, k).path

\* a lookup that met a reload has returned, and the table before the reload
\* and the table after it give different lists for its path
C6_Witness ==
    \E id \in 1..Len(reqs) :
        /\ reqs[id].pc \in {"found", "done"}
        /\ reqs[id].during
        /\ Len(hist) >= 2
        /\ \E k \in 2..Len(hist) : OnTable(id, k - 1).search # OnTable(id, k).search

\* C7: while the directories and archives are scanned no lock is held, and a
\* lookup that arrives meanwhile can take the read lock.
C7_ScanUnlocked ==
    reload.pc = "scan" =>
        /\ ~mutex.w
        /\ \A id \in 1..Len(reqs) : reqs[id].pc = "new" => CanRLock(mutex)

(***************************************************************************)
(* The referer check and the two gates of the handler, over the stores of  *)
(* the directories e and f under the route ^(/a/|/e).                      *)
(***************************************************************************)
routeAE == [anchored |-> TRUE, alts |-> << << 47, 97, 47 >>, << 47, 101 >> >>]

\* the patterns ^s, ^t and ^ok; the referer "ok"
startS == [anchored |-> TRUE, alts |-> << << 115 >> >>]

startT == [anchored |-> TRUE, alts |-> << << 116 >> >>]

startOk == [anchored |-> TRUE, alts |-> << << 111, 107 >> >>]

refOk == << 111, 107 >>

\* /a/s /a/t /a/n /e /x
GatePaths == { << 47, 97, 47, 115 >>, << 47, 97, 47, 116 >>, << 47, 97, 47, 110 >>,
               << 47, 101 >>, << 47, 120 >> }

\* a zip archive whose entries, all stored, have the given names
GateZip(names) ==
    [ open |-> TRUE,
      img |-> [ hdr |-> << 80, 75, 3, 4, 0, 0, 0, 0, 0, 0, 0, 0 >>,
                body |-> ToRuns(storedS), dir |-> <<>>, dirLen |-> 0 ],
      zip |-> [ ok |-> TRUE,
                File |-> [ i \in 1..Len(names) |->
                             [ Name |-> names[i], ofsOk |-> TRUE, ofs |-> Wide(headerSize),
                               isDir |-> FALSE, CompressedSize |-> Wide(Len(storedS)),
                               UncompressedSize |-> Wide(Len(storedS)),
                               CRC32 |-> [h |-> 4660, l |-> 22136], Modified |-> Wide(0),
                               Method |-> 0 ] ] ] ]

\* a file of the tree with the given bytes; a directory of the tree on a file
\* system where lseek gives size, and on one where it fails
FileNode(data) == [isDir |-> FALSE, seek |-> << Wide(Len(data)) >>, data |-> data]

DirNodes == { [isDir |-> TRUE, seek |-> << WideMax >>, data |-> <<>>],
              [isDir |-> TRUE, seek |-> <<>>, data |-> <<>>] }

\* the trees of e: empty, the file s, the file t, the directory t; of f: empty,
\* the file t
TreesE == { <<>>, << 115 >> :> FileNode(<< 7 >>), << 116 >> :> FileNode(<< 7, 7 >>) }
          \cup { << 116 >> :> n : n \in DirNodes }

TreesF == { <<>>, << 116 >> :> FileNode(<< 8 >>) }

InitGate ==
    /\ IdleWriter /\ arc = EmptyImage /\ rd = NotRead /\ ext = NoExtract
    /\ \E order \in { << dirE, dirF >>, << dirF, dirE >> },
          black \in { <<>>, << startS >> },
          white \in { <<>>, << startS >>, << startT >>, << startT, anyString >> },
          ref \in { anyString, startOk },
          te \in TreesE, tf \in TreesF :
          Started([ SearchPaths |-> << [Match |-> routeAE, Search |-> order] >>,
                    PakBlackList |-> black, DirWhiteList |-> white,
                    RefererCheck |-> ref, ContentType |-> "application/octet-stream" ],
                  (dirE :> [ ok |-> TRUE, names |-> << zPkz >>, tree |-> te,
                             file |-> (zPkz :> GateZip(<< << 115 >> >>)) ])
                  @@ (dirF :> [ ok |-> TRUE, names |-> << zPkz >>, tree |-> tf,
                                file |-> (zPkz :> GateZip(<< << 115 >>, << 116 >> >>)) ]))

\* one request in a behaviour: a response depends on the table, the disk and
\* the request only
NextGate ==
    \/ \E m \in {"GET", "HEAD"}, p \in GatePaths, r \in { <<>>, refOk } :
          reqs = <<>> /\ Arrive(m, p, <<>>, r)
    \/ \E id \in 1..Len(reqs) : Handle(id)

SpecGate == InitGate /\ [][NextGate]_vars

\* the referer of rq matches RefererCheck; list has a pattern that matches str
RefererOk(rq) == FindStringIndex(config.RefererCheck, rq.Referer) # <<>>

Listed(list, str) == \E i \in 1..Len(list) : FindStringIndex(list[i], str) # <<>>

\* the gate of store st lets the asset path through; st has something at the
\* asset path: an entry of the archive, or a path of the tree that os.Open
\* opens
Permits(st, path) ==
    IF st.isDir THEN Listed(config.DirWhiteList, path) ELSE ~Listed(config.PakBlackList, path)

Contains(st, path) ==
    IF st.isDir THEN st.path \in DOMAIN disk /\ path \in DOMAIN disk[st.path].tree
    ELSE path \in DOMAIN st.files /\ FileOfPath(disk, st.path).open

\* the stores of rq's route that pass their gate and contain the asset path
Hits(rq) ==
    { k \in 1..Len(rq.search.list) :
        Permits(rq.search.list[k], rq.path) /\ Contains(rq.search.list[k], rq.path) }

\* C13: a referer mismatch gives 403, also when the path would not resolve;
\* otherwise the answer is 404 if no route matches, the asset path is empty,
\* both gates reject it, or no permitted store contains it; an asset served
\* from an archive entry gives 200; a request answered from an archive or
\* not served from any store has no other status
C13_StatusOrder ==
    \A id \in 1..Len(reqs) :
        reqs[id].pc = "done" =>
            LET rq == reqs[id]
                rs == reqs[id].resp
            IN  /\ ~RefererOk(rq) => rs.status = 403
                /\ (/\ RefererOk(rq)
                    /\ \/ Matching(searchPaths, rq.Path) = {}
                       \/ rq.path = <<>>
                       \/ (Listed(config.PakBlackList, rq.path) /\ ~Listed(config.DirWhiteList, rq.path))
                       \/ Hits(rq) = {}) => rs.status = 404
                /\ rs.from.entry # <<>> => rs.status = 200
                /\ rs.from.store = <<>> => rs.status \in {403, 404}

\* a request with a wrong referer for a path no route matches got 403
C13_Witness ==
    \E id \in 1..Len(reqs) :
        /\ reqs[id].pc = "done"
        /\ ~RefererOk(reqs[id])
        /\ Matching(searchPaths, reqs[id].Path) = {}
        /\ reqs[id].resp.status = 403

\* the response that only says not found: no header, no body, nothing opened
NotFound == [NoResponse EXCEPT !.status = 404]

\* some store of rq's route has the asset path, and every store that has it
\* is closed to it by its gate
Denied(rq) ==
    /\ \E k \in 1..Len(rq.search.list) : Contains(rq.search.list[k], rq.path)
    /\ Hits(rq) = {}

\* the asset path is in no store of rq's route, and some gate would let it
\* through
Absent(rq) ==
    /\ \A k \in 1..Len(rq.search.list) : ~Contains(rq.search.list[k], rq.path)
    /\ (~Listed(config.PakBlackList, rq.path) \/ Listed(config.DirWhiteList, rq.path))

\* C14: a request whose asset path both gates reject, or the gates of the only
\* stores that hold it reject, gets the same response as a request for a
\* permitted asset path that is in no store: 404 and nothing else; a gate
\* never gives 403
C14_NoLeak ==
    \A id \in 1..Len(reqs) :
        (reqs[id].pc = "done" /\ RefererOk(reqs[id]) /\ reqs[id].search.ok /\ reqs[id].path # <<>>) =>
            /\ Denied(reqs[id]) => reqs[id].resp = NotFound
            /\ Absent(reqs[id]) => reqs[id].resp = NotFound
            /\ reqs[id].resp.status # 403

\* an asset that both archives hold, rejected by the blacklist with no
\* whitelist entry for it, was answered as not found
C14_Witness ==
    \E id \in 1..Len(reqs) :
        /\ reqs[id].pc = "done" /\ RefererOk(reqs[id]) /\ reqs[id].search.ok
        /\ Denied(reqs[id])
        /\ Listed(config.PakBlackList, reqs[id].path)
        /\ reqs[id].resp = NotFound

\* C15: no response is made from an archive store for an asset path that a
\* PakBlackList pattern matches, and none from a directory store unless a
\* DirWhiteList pattern matches the asset path
C15_Gates ==
    \A id \in 1..Len(reqs) :
        (reqs[id].pc = "done" /\ reqs[id].resp.from.store # <<>>) =>
            IF reqs[id].resp.from.entry # <<>>
            THEN \A i \in 1..Len(config.PakBlackList) :
                    FindStringIndex(config.PakBlackList[i], reqs[id].path) = <<>>
            ELSE \E i \in 1..Len(config.DirWhiteList) :
                    FindStringIndex(config.DirWhiteList[i], reqs[id].path) # <<>>

\* an asset on the blacklist and on the whitelist, held by the archive of the
\* first store, was served from the tree of a directory
C15_Witness ==
    \E id \in 1..Len(reqs) :
        /\ reqs[id].pc = "done"
        /\ reqs[id].resp.from.store # <<>> /\ reqs[id].resp.from.entry = <<>>
        /\ Listed(config.PakBlackList, reqs[id].path)
        /\ ~reqs[id].search.list[1].isDir
        /\ reqs[id].path \in DOMAIN reqs[id].search.list[1].files

\* store st has the asset: an entry of its archive, whose file opens, or a
\* file of its tree
HoldsAsset(st, path) ==
    IF st.isDir
    THEN st.path \in DOMAIN disk /\ path \in DOMAIN disk[st.path].tree
         /\ ~disk[st.path].tree[path].isDir
    ELSE path \in DOMAIN st.files /\ FileOfPath(disk, st.path).open

\* the first store of rq's route that passes its gate and has the asset, or 0
FirstHit(rq) ==
    LET H == { k \in 1..Len(rq.search.list) :
                 Permits(rq.search.list[k], rq.path) /\ HoldsAsset(rq.search.list[k], rq.path) }
    IN  IF H = {} THEN 0 ELSE CHOOSE k \in H : \A j \in H : k <= j

\* C16: the response is made from the first store, in list order, that passes
\* its gate and has the asset, and the file of that store is the only one
\* opened; stores before it that lack the asset or are gated off do not keep
\* it from serving, and when there is no such store nothing is served
C16_FirstHit ==
    \A id \in 1..Len(reqs) :
        (reqs[id].pc = "done" /\ RefererOk(reqs[id]) /\ reqs[id].search.ok /\ reqs[id].path # <<>>) =>
            LET rq == reqs[id]
                k == FirstHit(rq)
            IN  IF k = 0
                THEN rq.resp.from.store = <<>> /\ rq.resp.opened = <<>>
                ELSE /\ rq.resp.from.store = rq.search.list[k].path
                     /\ rq.resp.opened = << IF rq.search.list[k].isDir
                                            THEN Join(rq.search.list[k].path, rq.path)
                                            ELSE rq.search.list[k].path >>
                     /\ ~rq.search.list[k].isDir =>
                            rq.resp.from.entry = rq.search.list[k].files[rq.path]

(***************************************************************************)
(* SIGHUP and the loop of waitForSignal, from the return of main's         *)
(* scanSearchPaths on, with a lookup in its own goroutine. The goroutines  *)
(* are scheduled fairly, and Lock returns once the readers have left. The   *)
(* weak fairness of ScanStep is stated with its enabling condition written *)
(* out.                                                                    *)
(***************************************************************************)
\* signal.Notify(c, syscall.SIGHUP) in waitForSignal
Notify ==
    /\ reload.pc = "main"
    /\ reload' = [reload EXCEPT !.pc = "wait"]
    /\ UNCHANGED <<pakVars, rdVars, heap, config, disk, searchPaths, dirCache, mutex, sig, reqs, hist>>

\* the directory d can no longer be opened
Detach(d) ==
    /\ disk[d].ok
    /\ reload.pc # "exited"
    /\ disk' = [disk EXCEPT ![d].ok = FALSE]
    /\ UNCHANGED <<pakVars, rdVars, heap, config, searchPaths, dirCache, mutex, reload, sig, reqs, hist>>

InitTrigger ==
    /\ IdleWriter /\ arc = EmptyImage /\ rd = NotRead /\ ext = NoExtract
    /\ Booted("main",
              [ SearchPaths |-> << [Match |-> routeAll, Search |-> << dirE >>],
                                   [Match |-> routeA, Search |-> << dirF, dirE >>] >>,
                PakBlackList |-> <<>>, DirWhiteList |-> << routeAll >>,
                RefererCheck |-> anyString, ContentType |-> "application/octet-stream" ],
              (dirE :> [ ok |-> TRUE, names |-> << pak0 >>, tree |-> <<>>,
                         file |-> [n \in {pak0} |-> EmptyPak] ])
              @@ (dirF :> [ ok |-> TRUE, names |-> << custom >>, tree |-> <<>>,
                            file |-> [n \in {custom} |-> EmptyPak] ]))

\* a lookup is followed to the return of findSearchPath
NextTrigger ==
    \/ Arrive("GET", << 47, 120 >>, <<>>, <<>>)
    \/ \E id \in 1..Len(reqs) : FindRLock(id)
    \/ \E id \in 1..Len(reqs) : FindRange(id)
    \/ \E id \in 1..Len(reqs) : FindStep(id)
    \/ \E id \in 1..Len(reqs) : FindReturn(id)
    \/ (sig = sigBuffer \/ ScansBelow(1 + MaxRescans)) /\ SigHup
    \/ Detach(dirF)
    \/ Notify
    \/ TakeSignal
    \/ LockBegin
    \/ LockDone
    \/ ResetTable
    \/ ScanStep
    \/ Unlock

SpecTrigger ==
    /\ InitTrigger /\ [][NextTrigger]_vars
    /\ WF_vars(Notify) /\ WF_vars(TakeSignal)
    /\ WF_vars(LockBegin) /\ WF_vars(LockDone)
    /\ WF_vars(ResetTable) /\ WF_vars(Unlock)
    /\ <>[](reload.pc = "scan" /\ Len(searchPaths) < Len(config.SearchPaths)) => []<><<ScanStep>>_vars
    /\ \A id \in 1..MaxReqs :
          /\ WF_vars(id <= Len(reqs) /\ FindRange(id))
          /\ WF_vars(id <= Len(reqs) /\ FindStep(id))
          /\ WF_vars(id <= Len(reqs) /\ FindReturn(id))

PakFile(img) == [open |-> TRUE, zip |-> [ok |-> FALSE, File |-> <<>>], img |-> img]

\* an archive of one empty entry, f
GoodPak == PakFile(MkArchive(pakIdent, Wide(headerSize), Wide(entrySize), 0,
                             DirOf(1, 1, Wide(headerSize), Wide(0))))

\* pak2.pak: idents, directories of k entries after a gap, header fields and
\* entry fields around the limits
InitScanPak ==
    /\ IdleWriter /\ arc = EmptyImage /\ rd = NotRead /\ ext = NoExtract
    /\ \E id \in Idents, k \in 0..MaxDir :
       \E gap \in {0, MaxOffset - headerSize - entrySize * k} :
       \E dirofs \in DirOfsVals(headerSize + gap, entrySize * k),
          dirlen \in DirLenVals(entrySize * k) :
       \E pos \in FilePosVals, len \in FileLenVals :
          /\ \/ /\ dirofs = Wide(headerSize + gap) /\ dirlen = Wide(entrySize * k)
                /\ id = pakIdent /\ (k = 0 => pos = Wide(0) /\ len = Wide(0))
             \/ gap = 0 /\ pos = Wide(headerSize) /\ len = Wide(0)
          /\ config = [ SearchPaths |-> << [Match |-> routeAll, Search |-> << dirQ >>] >>,
                        PakBlackList |-> <<>>, DirWhiteList |-> <<>>,
                        RefererCheck |-> anyString, ContentType |-> "application/octet-stream" ]
          /\ disk = (dirQ :> [ ok |-> TRUE, names |-> << pak0, pak2, custom >>, tree |-> <<>>,
                                file |-> (pak0 :> GoodPak) @@ (custom :> GoodPak)
                                         @@ (pak2 :> PakFile(MkArchive(id, dirofs, dirlen, gap,
                                                                       DirOf(k, k, pos, len)))) ])
    /\ searchPaths = <<>> /\ dirCache = <<>>
    /\ mutex = [w |-> FALSE, r |-> 0, waiting |-> FALSE]
    /\ reload = [pc |-> "start", owed |-> FALSE, heard |-> FALSE, dropped |-> FALSE]
    /\ sig = 0 /\ reqs = <<>> /\ hist = <<>> /\ heap = NoHeap

SpecScanPak == InitScanPak /\ [][NextScanDir]_vars

\* the image has a wrong ident, a directory length that is not a multiple of
\* 64, a directory that ends beyond 2^31 - 1, or a directory record of the
\* file whose position and length add up to more than 2^31 - 1
Malformed(img) ==
    \/ HeaderOf(img).Ident # pakIdent
    \/ WMod(HeaderOf(img).Dirlen, entrySize) # 0
    \/ Exceeds(HeaderOf(img).Dirofs, HeaderOf(img).Dirlen)
    \/ BadEntries(img, ImgSize(img))

\* C18: a scan does not end the process, and when pak2.pak is malformed the
\* stores of the directory are those of pak0.pak and custom.pak, every time
\* the directory is scanned
C18_MalformedRejected ==
    /\ ~(reload.pc = "exited" /\ mutex.w)
    /\ (reload.pc = "wait" /\ Malformed(disk[dirQ].file[pak2].img)) =>
          \A k \in 1..Len(hist) :
             /\ Len(hist[k]) = 1
             /\ LET names == ArchiveNames(hist[k][1].search)
                IN  {names[i] : i \in 1..Len(names)} = {pak0, custom}

(***************************************************************************)
(* normalizeName, applied by scanpak to the name of an entry of q/pak0.pak. *)
(***************************************************************************)
\* A\Foo.BSP, a/foo.bsp, /a/foo.bsp
exampleNames ==
    { << 65, 92, 70, 111, 111, 46, 66, 83, 80 >>,
      << 97, 47, 102, 111, 111, 46, 98, 115, 112 >>,
      << 47, 97, 47, 102, 111, 111, 46, 98, 115, 112 >> }

\* the names of at most MaxNameLen bytes over / \ . A a, and the examples
EntryNames ==
    UNION { [1..n -> {47, 92, 46, 65, 97}] : n \in 0..MaxNameLen } \cup exampleNames

\* the archive of one empty entry with the given name
NamedPak(n) ==
    PakFile(MkArchive(pakIdent, Wide(headerSize), Wide(entrySize), 0,
                      << [Name |-> n, Filepos |-> Wide(headerSize), Filelen |-> Wide(0)] >>))

InitNames ==
    /\ IdleWriter /\ arc = EmptyImage /\ rd = NotRead /\ ext = NoExtract
    /\ \E n \in EntryNames :
          /\ config = [ SearchPaths |-> << [Match |-> routeAll, Search |-> << dirQ >>] >>,
                        PakBlackList |-> <<>>, DirWhiteList |-> <<>>,
                        RefererCheck |-> anyString, ContentType |-> "application/octet-stream" ]
          /\ disk = (dirQ :> [ ok |-> TRUE, names |-> << pak0 >>, tree |-> <<>>,
                                file |-> (pak0 :> NamedPak(n)) ])
    /\ searchPaths = <<>> /\ dirCache = <<>>
    /\ mutex = [w |-> FALSE, r |-> 0, waiting |-> FALSE]
    /\ reload = [pc |-> "start", owed |-> FALSE, heard |-> FALSE, dropped |-> FALSE]
    /\ sig = 0 /\ reqs = <<>> /\ hist = <<>> /\ heap = NoHeap

NextNames ==
    \/ Rescan
    \/ ScansBelow(MaxScans) /\ SigHup

SpecNames == InitNames /\ [][NextNames]_vars

\* the name of the entry as the archive holds it, and the names under which
\* the scanned store has it
StoredName == disk[dirQ].file[pak0].img.dir[1].Name

ScannedNames == DOMAIN searchPaths[1].search[1].files

\* the segments of a name: its parts between the '/'
RECURSIVE Segments(_, _)
Segments(str, seg) ==
    IF str = <<>> THEN { seg }
    ELSE IF str[1] = 47 THEN { seg } \cup Segments(Tail(str), <<>>)
    ELSE Segments(Tail(str), Append(seg, str[1]))

\* C20: the name normalizeName gives is left as it is by normalizeName, does
\* not begin with '/', has no backslash, no uppercase letter and no segment
\* "." or "..", and is what pakToFs gives; A\Foo.BSP, a/foo.bsp and /a/foo.bsp
\* all give a/foo.bsp
C20_Normalize ==
    (reload.pc = "wait" /\ Len(searchPaths) = 1) =>
        /\ ScannedNames # {}
        /\ \A key \in ScannedNames :
              /\ normalizeName(key) = key
              /\ pakToFs(StoredName) = key /\ pakToFs(key) = key
              /\ key # <<>> => key[1] # 47
              /\ \A i \in 1..Len(key) : key[i] # 92 /\ ~(key[i] >= 65 /\ key[i] <= 90)
              /\ Segments(key, <<>>) \cap { << 46 >>, << 46, 46 >> } = {}
              /\ StoredName \in exampleNames =>
                    key = << 97, 47, 102, 111, 111, 46, 98, 115, 112 >>

\* the entry A\Foo.BSP was scanned and is in the store as a/foo.bsp
C20_Witness ==
    /\ reload.pc = "wait" /\ Len(searchPaths) = 1
    /\ StoredName = << 65, 92, 70, 111, 111, 46, 66, 83, 80 >>
    /\ << 97, 47, 102, 111, 111, 46, 98, 115, 112 >> \in ScannedNames

(***************************************************************************)
(* Archives that are removed after the scan: the table keeps their stores, *)
(* os.Open of the handler fails.                                           *)
(***************************************************************************)
InitReopen ==
    /\ IdleWriter /\ arc = EmptyImage /\ rd = NotRead /\ ext = NoExtract
    /\ \E order \in { << dirE, dirF >>, << dirF, dirE >> },
          white \in { <<>>, << anyString >> },
          te \in TreesE, tf \in TreesF :
          Started([ SearchPaths |-> << [Match |-> routeAE, Search |-> order] >>,
                    PakBlackList |-> <<>>, DirWhiteList |-> white,
                    RefererCheck |-> anyString, ContentType |-> "application/octet-stream" ],
                  (dirE :> [ ok |-> TRUE, names |-> << zPkz >>, tree |-> te,
                             file |-> (zPkz :> GateZip(<< << 115 >> >>)) ])
                  @@ (dirF :> [ ok |-> TRUE, names |-> << zPkz >>, tree |-> tf,
                                file |-> (zPkz :> GateZip(<< << 115 >>, << 116 >> >>)) ]))

\* one request in a behaviour, handled in one step on the disk as it is then
NextReopen ==
    \/ \E d \in DOMAIN disk : reqs = <<>> /\ Unlink(d, zPkz)
    \/ \E m \in {"GET", "HEAD"}, p \in GatePaths : reqs = <<>> /\ Arrive(m, p, <<>>, <<>>)
    \/ \E id \in 1..Len(reqs) : Handle(id)

SpecReopen == InitReopen /\ [][NextReopen]_vars

\* the loop of the handler for rq comes to store k, an archive that holds the
\* asset path and whose file os.Open does not open
ReopenFails(rq, k) ==
    /\ rq.pc = "done" /\ rq.search.ok /\ Len(rq.path) > 0
    /\ k \in 1..Len(rq.search.list)
    /\ ~rq.search.list[k].isDir
    /\ Permits(rq.search.list[k], rq.path)
    /\ rq.path \in DOMAIN rq.search.list[k].files
    /\ ~FileOfPath(disk, rq.search.list[k].path).open
    /\ \A j \in 1..(k - 1) : j \notin Hits(rq)

\* rq with the asset path taken out of the archive of store k
Without(rq, k) ==
    [rq EXCEPT !.search.list[k].files = [p \in DOMAIN @ \ {rq.path} |-> @[p]]]

\* C21, as stated: a request whose asset path is found in a scanned archive
\* whose file cannot be opened is answered 404.
C21_NotFound ==
    \A id \in 1..Len(reqs) : \A k \in 1..Len(reqs[id].search.list) :
        ReopenFails(reqs[id], k) => reqs[id].resp.status = 404

\* C21: an archive whose file cannot be opened at request time is passed over
\* as if it did not hold the asset path: the answer is the one the later
\* stores give, 404 when none of them has the path; nothing is opened or
\* served from the archive, and a status other than 200 or 404 comes from a
\* directory store only.
C21_Reopen ==
    \A id \in 1..Len(reqs) : \A k \in 1..Len(reqs[id].search.list) :
        ReopenFails(reqs[id], k) =>
            LET rq == reqs[id]
                st == rq.search.list[k]
            IN  /\ rq.resp = Return(Respond(config, disk, Without(rq, k)))
                /\ rq.resp.from.store # st.path
                /\ \A o \in 1..Len(rq.resp.opened) : rq.resp.opened[o] # st.path
                /\ (\A j \in (k + 1)..Len(rq.search.list) : j \notin Hits(rq))
                      => rq.resp.status = 404
                /\ rq.resp.status \notin {200, 404}
                      => \E j \in (k + 1)..Len(rq.search.list) :
                            /\ rq.search.list[j].isDir
                            /\ rq.search.list[j].path = rq.resp.from.store

\* the file of the first archive is gone and no later store has the asset
\* path: 404
C21_Witness ==
    \E id \in 1..Len(reqs) :
        /\ ReopenFails(reqs[id], 1)
        /\ Len(reqs[id].search.list) > 1
        /\ reqs[id].resp.status = 404
        /\ reqs[id].resp.opened = <<>>

(***************************************************************************)
(* Scans that meet archives that do not scan and directories that cannot   *)
(* be read, at startup and for a signal.                                   *)
(***************************************************************************)
\* an archive with a wrong ident, a file that is no zip archive, an archive
\* that os.Open does not open
BadPak ==
    [ open |-> TRUE, zip |-> [ok |-> FALSE, File |-> <<>>],
      img |-> MkArchive(Wide(0), Wide(headerSize), Wide(0), 0, <<>>) ]

BadZip == [EmptyZip EXCEPT !.zip.ok = FALSE]

Locked(f) == [f EXCEPT !.open = FALSE]

InitScanFail ==
    /\ IdleWriter /\ arc = EmptyImage /\ rd = NotRead /\ ext = NoExtract
    /\ \E white \in { <<>>, << routeAll >> },
          p0 \in { EmptyPak, BadPak, Locked(EmptyPak) },
          z \in { EmptyZip, BadZip },
          c \in { EmptyPak, BadPak },
          oke \in BOOLEAN, okf \in BOOLEAN :
          /\ config = [ SearchPaths |-> << [Match |-> routeAll, Search |-> << dirE >>],
                                           [Match |-> routeA, Search |-> << dirF, dirE >>] >>,
                        PakBlackList |-> <<>>, DirWhiteList |-> white,
                        RefererCheck |-> anyString, ContentType |-> "application/octet-stream" ]
          /\ disk = (dirE :> [ ok |-> oke, names |-> << zPkz, pak0 >>, tree |-> <<>>,
                                file |-> (pak0 :> p0) @@ (zPkz :> z) ])
                    @@ (dirF :> [ ok |-> okf, names |-> << custom >>, tree |-> <<>>,
                                  file |-> (custom :> c) ])
    /\ searchPaths = <<>> /\ dirCache = <<>>
    /\ mutex = [w |-> FALSE, r |-> 0, waiting |-> FALSE]
    /\ reload = [pc |-> "start", owed |-> FALSE, heard |-> FALSE, dropped |-> FALSE]
    /\ sig = 0 /\ reqs = <<>> /\ hist = <<>> /\ heap = NoHeap

\* requests arrive once main has started the listeners
NextScanFail ==
    \/ Rescan
    \/ ScansBelow(MaxScans) /\ SigHup
    \/ \E d \in DOMAIN disk : Detach(d)
    \/ reload.pc = "wait" /\ Arrive("GET", << 47, 97, 47, 120 >>, <<>>, <<>>)
    \/ \E id \in 1..Len(reqs) : Lookup(id)

SpecScanFail == InitScanFail /\ [][NextScanFail]_vars

\* the names of directory d that end in .pak or .pkz and scan without error
ScansWell(d) ==
    { n \in DOMAIN disk[d].file :
        /\ \E k \in 1..Len(disk[d].names) : disk[d].names[k] = n
        /\ IF HasSuffix(ToLower(n), extPkz) THEN scanzip(disk[d].file[n]).err = nil
           ELSE HasSuffix(ToLower(n), extPak) /\ scanpak(disk[d].file[n]).err = nil }

\* every directory of the configuration can be opened and listed
AllReadable ==
    \A i \in 1..Len(config.SearchPaths) : \A k \in 1..Len(config.SearchPaths[i].Search) :
        /\ config.SearchPaths[i].Search[k] \in DOMAIN disk
        /\ disk[config.SearchPaths[i].Search[k]].ok

\* the archive stores of the list sp, as paths
ArchivePaths(sp) == { sp[k].path : k \in { j \in 1..Len(sp) : ~sp[j].isDir } }

\* table has, for each route of the configuration, the archives of the
\* route's directories that scan without error, and no other archive
FromRemaining(table) ==
    /\ Len(table) = Len(config.SearchPaths)
    /\ \A i \in 1..Len(table) :
          /\ table[i].match = config.SearchPaths[i].Match
          /\ ArchivePaths(table[i].search)
                = UNION { { Join(config.SearchPaths[i].Search[k], n) :
                              n \in ScansWell(config.SearchPaths[i].Search[k]) } :
                          k \in 1..Len(config.SearchPaths[i].Search) }

\* the process has ended inside scanSearchPaths
ScanFatal == reload.pc = "exited" /\ mutex.w

\* C22: a run of scanSearchPaths, at startup or for a signal, publishes a
\* table made of the archives that scan without error when every configured
\* directory can be read, whatever archives fail; when a directory cannot be
\* opened or listed the process ends and no table is published; lookups see
\* published tables only, and none after the process has ended.
C22_ScanFailure ==
    /\ [][ (reload.pc \in {"start", "wait"} /\ (hist' # hist \/ (reload'.pc = "exited" /\ mutex'.w)))
             => IF AllReadable
                THEN /\ reload'.pc = "wait"
                     /\ hist' = Append(hist, searchPaths')
                     /\ FromRemaining(searchPaths')
                ELSE /\ reload'.pc = "exited"
                     /\ hist' = hist ]_vars
    /\ [][ reload.pc = "exited" => (hist' = hist /\ reqs' = reqs) ]_vars
    /\ [](\A id \in 1..Len(reqs) :
             reqs[id].pc = "found" => \E k \in 1..Len(hist) : reqs[id].range = hist[k])

\* startup published a table without e/pak0.pak, which did not scan, and with
\* e/z.pkz; a lookup used it; the rescan for a signal found a directory
\* unreadable and ended the process
C22_Witness ==
    /\ ScanFatal
    /\ Len(hist) = 1
    /\ ArchiveNames(hist[1][1].search) = << zPkz >>
    /\ pak0 \notin ScansWell(dirE)
    /\ \E id \in 1..Len(reqs) : reqs[id].pc = "found"

(***************************************************************************)
(* The read lock of a lookup and the write lock of a reload, with          *)
(* transfers that take any time or never end.                              *)
(***************************************************************************)
\* the handler after findSearchPath has returned: the gates, os.Open and the
\* header of the response; the body is on its way
ServeOpen(id) ==
    /\ reqs[id].pc = "found"
    /\ reload.pc # "exited"
    /\ reqs' = [reqs EXCEPT ![id].pc = "sending", ![id].resp = Respond(config, disk, reqs[id])]
    /\ UNCHANGED <<pakVars, rdVars, heap, config, disk, searchPaths, dirCache, mutex, reload, sig, hist>>

\* io.Copy returns, the file is closed and the handler returns
ServeDone(id) ==
    /\ reqs[id].pc = "sending"
    /\ reload.pc # "exited"
    /\ reqs' = [reqs EXCEPT ![id].pc = "done", ![id].resp = Return(@)]
    /\ UNCHANGED <<pakVars, rdVars, heap, config, disk, searchPaths, dirCache, mutex, reload, sig, hist>>

InitLock ==
    /\ IdleWriter /\ arc = EmptyImage /\ rd = NotRead /\ ext = NoExtract
    /\ Started([ SearchPaths |-> << [Match |-> routeAll, Search |-> << dirE, dirF >>] >>,
                 PakBlackList |-> <<>>, DirWhiteList |-> <<>>,
                 RefererCheck |-> anyString, ContentType |-> "application/octet-stream" ],
               (dirE :> [ ok |-> TRUE, names |-> << zPkz >>, tree |-> <<>>,
                          file |-> (zPkz :> GateZip(<< << 115 >> >>)) ])
               @@ (dirF :> [ ok |-> TRUE, names |-> <<>>, tree |-> <<>>, file |-> <<>> ]))

NextLock ==
    \/ Arrive("GET", << 47, 115 >>, <<>>, <<>>)
    \/ \E id \in 1..Len(reqs) : FindRLock(id)
    \/ \E id \in 1..Len(reqs) : FindRange(id)
    \/ \E id \in 1..Len(reqs) : FindStep(id)
    \/ \E id \in 1..Len(reqs) : FindReturn(id)
    \/ \E id \in 1..Len(reqs) : ServeOpen(id)
    \/ \E id \in 1..Len(reqs) : ServeDone(id)
    \/ ScansBelow(MaxScans) /\ SigHup
    \/ Detach(dirF)
    \/ TakeSignal
    \/ LockBegin
    \/ LockDone
    \/ ResetTable
    \/ ScanStep
    \/ Unlock

\* the steps of findSearchPath and those of scanSearchPaths from the return
\* of Lock are taken; a transfer need not go on, a signal need not be taken
SpecLock ==
    /\ InitLock /\ [][NextLock]_vars
    /\ WF_vars(LockDone) /\ WF_vars(ResetTable) /\ WF_vars(Unlock)
    /\ <>[](reload.pc = "scan" /\ Len(searchPaths) < Len(config.SearchPaths)) => []<><<ScanStep>>_vars
    /\ \A id \in 1..MaxReqs :
          /\ WF_vars(id <= Len(reqs) /\ FindRLock(id))
          /\ WF_vars(id <= Len(reqs) /\ FindRange(id))
          /\ WF_vars(id <= Len(reqs) /\ FindStep(id))
          /\ WF_vars(id <= Len(reqs) /\ FindReturn(id))

\* the requests that are inside findSearchPath between RLock and RUnlock
Readers == { id \in 1..Len(reqs) : reqs[id].pc \in {"rlocked", "loop"} }

\* C23: the read lock is held by the lookups that are matching routes and by
\* no other request; a request has opened no file and written nothing before
\* its lookup has returned; a reload that has called Lock gets the lock,
\* whatever transfers are going on, and every lookup returns, unless a reload
\* ends the process.
C23_LockScope ==
    /\ [](mutex.r = Cardinality(Readers))
    /\ [](\A id \in 1..Len(reqs) :
             reqs[id].pc \in {"new", "rlocked", "loop", "found"} => reqs[id].resp = NoResponse)
    /\ (reload.pc = "locking") ~> (reload.pc = "locked")
    /\ \A id \in 1..MaxReqs :
          (id <= Len(reqs) /\ reqs[id].pc \in {"new", "rlocked", "loop"})
             ~> ((id <= Len(reqs) /\ reqs[id].pc = "found") \/ reload.pc = "exited")

\* a reload holds the write lock while a request that looked up the table
\* before it is still sending the entry it opened
C23_Witness ==
    \E id \in 1..Len(reqs) :
        /\ reqs[id].pc = "sending"
        /\ reqs[id].resp.status = 200 /\ reqs[id].resp.opened # <<>>
        /\ reload.pc = "locked" /\ mutex.w /\ mutex.r = 0
        /\ reqs[id].last = Len(hist)

(***************************************************************************)
(* The tables in memory.  heap.obj is the sequence of the arrays and maps  *)
(* allocated so far; the address of an object is its index.  An array is   *)
(* [cap, elems], elems being the slots written; a map is [cap, elems] with *)
(* elems the function it holds.  A slice is [at, len, cap]: the address of *)
(* its array (0: none), its length and its capacity.  A SearchPath in      *)
(* memory is [path, files]: files is the address of the map, 0 for nil.    *)
(***************************************************************************)
NilSlice == [at |-> 0, len |-> 0, cap |-> 0]

\* the elements of the slice s
SliceElems(obj, s) == IF s.at = 0 THEN <<>> ELSE SubSeq(obj[s.at].elems, 1, s.len)

\* make([]T, 0, n): a new array
MakeSlice(obj, n) ==
    [ obj |-> Append(obj, [cap |-> n, elems |-> <<>>]),
      s |-> [at |-> Len(obj) + 1, len |-> 0, cap |-> n] ]

\* append(s, xs...): in place when the capacity suffices, else into a new
\* array whose capacity exceeds the need by slack
GoAppend(obj, s, xs, slack) ==
    IF xs = <<>> THEN [obj |-> obj, s |-> s]
    ELSE IF s.len + Len(xs) <= s.cap
    THEN [ obj |-> [obj EXCEPT ![s.at].elems =
                        SubSeq(@, 1, s.len) \o xs \o SubSeq(@, s.len + Len(xs) + 1, Len(@))],
           s |-> [s EXCEPT !.len = @ + Len(xs)] ]
    ELSE [ obj |-> Append(obj, [ cap |-> s.len + Len(xs) + slack,
                                 elems |-> SliceElems(obj, s) \o xs ]),
           s |-> [at |-> Len(obj) + 1, len |-> s.len + Len(xs), cap |-> s.len + Len(xs) + slack] ]

\* sp = append(sp, *s) for the result res of scanpak or scanzip, whose map
\* of entries is a new object
HeapScanned(r, path, res) ==
    IF res.err # nil THEN r
    ELSE GoAppend(Append(r.obj, [cap |-> 0, elems |-> res.files]), r.s,
                  << [path |-> path, files |-> Len(r.obj) + 1] >>, 0)

\* the loop of scandir over the sorted names, on r = [obj, s]
RECURSIVE HeapScanAll(_, _, _, _)
HeapScanAll(r, dir, name, paks) ==
    IF paks = <<>> THEN r
    ELSE HeapScanAll(HeapScanned(r, Join(name, paks[1]),
                                 IF HasSuffix(ToLower(paks[1]), extPkz)
                                 THEN scanzip(dir.file[paks[1]])
                                 ELSE scanpak(dir.file[paks[1]])),
                     dir, name, Tail(paks))

HeapSentinel(r, white, name) ==
    IF white THEN GoAppend(r.obj, r.s, << [path |-> name, files |-> 0] >>, 0) ELSE r

\* dirCache[name] = sp; return sp
HeapCached(r, cache, name) ==
    [fatal |-> FALSE, obj |-> [r.obj EXCEPT ![cache].elems = MapSet(@, name, r.s)], s |-> r.s]

\* scandir after Readdirnames, for the names paks it keeps
HeapScanNew(obj, cache, dir, white, name, paks) ==
    HeapCached(HeapSentinel(HeapScanAll(MakeSlice(obj, Len(paks) + 1), dir, name, paks),
                            white, name),
               cache, name)

\* scandir(name) with dirCache the map at cache
HeapScandir(obj, cache, dsk, white, name) ==
    IF name \in DOMAIN obj[cache].elems
    THEN [fatal |-> FALSE, obj |-> obj, s |-> obj[cache].elems[name]]
    ELSE IF name \notin DOMAIN dsk \/ ~dsk[name].ok THEN [fatal |-> TRUE, obj |-> obj, s |-> NilSlice]
    ELSE HeapScanNew(obj, cache, dsk[name], white, name, sortSlice(PakNames(dsk[name].names)))

\* sp = append(sp, scandir(dir)...), for what scandir returned
HeapAppendScan(sp, r, slack) ==
    IF r.fatal THEN [fatal |-> TRUE, obj |-> r.obj, s |-> sp]
    ELSE [fatal |-> FALSE] @@ GoAppend(r.obj, sp, SliceElems(r.obj, r.s), slack)

\* the loop over cfg.Search, on acc = [fatal, obj, s]
RECURSIVE HeapScanDirs(_, _, _, _, _, _)
HeapScanDirs(acc, cache, dsk, white, dirs, slack) ==
    IF dirs = <<>> \/ acc.fatal THEN acc
    ELSE HeapScanDirs(HeapAppendScan(acc.s, HeapScandir(acc.obj, cache, dsk, white, dirs[1]), slack),
                      cache, dsk, white, Tail(dirs), slack)

\* a scanSearchPaths that empties the table it has: searchPaths = searchPaths[:0]
ReuseTable(h, n) == [obj |-> h.obj, s |-> [h.table EXCEPT !.len = 0]]

\* searchPaths = make([]CompiledSearchPath, 0, len(config.SearchPaths))
MakeTable(h, n) == MakeSlice(h.obj, n)

\* the first two statements of scanSearchPaths after Lock
HeapReset ==
    /\ heap.pc = "idle"
    /\ \E t \in { MakeTable(heap, Len(config.SearchPaths)) } :
          heap' = [heap EXCEPT !.pc = "scan", !.table = t.s, !.cache = Len(t.obj) + 1,
                               !.obj = Append(t.obj, [cap |-> 0, elems |-> <<>>])]
    /\ UNCHANGED <<pakVars, rdVars, config, disk, searchPaths, dirCache, mutex, reload, sig, reqs, hist>>

\* one iteration of the loop over config.SearchPaths
HeapScanRoute ==
    /\ heap.pc = "scan"
    /\ heap.table.len < Len(config.SearchPaths)
    /\ \E slack \in {0, 1} :
       \E r \in { HeapScanDirs([fatal |-> FALSE, obj |-> heap.obj, s |-> NilSlice], heap.cache, disk,
                               Len(config.DirWhiteList) > 0,
                               config.SearchPaths[heap.table.len + 1].Search, slack) } :
          IF r.fatal THEN heap' = [heap EXCEPT !.pc = "exited", !.obj = r.obj]
          ELSE \E a \in { GoAppend(r.obj, heap.table,
                                   << [ match |-> config.SearchPaths[heap.table.len + 1].Match,
                                        search |-> r.s ] >>, 0) } :
                  heap' = [heap EXCEPT !.obj = a.obj, !.table = a.s]
    /\ UNCHANGED <<pakVars, rdVars, config, disk, searchPaths, dirCache, mutex, reload, sig, reqs, hist>>

\* the store list at the slice s, with the entries of each store
DerefList(obj, s) ==
    [ k \in 1..s.len |->
        [ path |-> obj[s.at].elems[k].path,
          isDir |-> obj[s.at].elems[k].files = 0,
          files |-> IF obj[s.at].elems[k].files = 0 THEN <<>>
                    ELSE obj[obj[s.at].elems[k].files].elems ] ]

\* the table at the slice t
DerefTable(obj, t) ==
    [ i \in 1..t.len |-> [ match |-> obj[t.at].elems[i].match,
                           search |-> DerefList(obj, obj[t.at].elems[i].search) ] ]

\* the deferred Unlock: the table is published; heap.pub keeps what it held
HeapPublish ==
    /\ heap.pc = "scan"
    /\ heap.table.len = Len(config.SearchPaths)
    /\ heap' = [heap EXCEPT !.pc = "idle",
                            !.pub = Append(@, [ table |-> heap.table,
                                                value |-> DerefTable(heap.obj, heap.table) ])]
    /\ UNCHANGED <<pakVars, rdVars, config, disk, searchPaths, dirCache, mutex, reload, sig, reqs, hist>>

\* findSearchPath returns the list of route i to a handler; heap.held keeps
\* the slice and what the list held then
HeapLookup(i) ==
    /\ heap.pc = "idle"
    /\ i <= heap.table.len
    /\ Len(heap.held) < MaxReqs
    /\ heap' = [heap EXCEPT !.held =
                   Append(@, [ search |-> heap.obj[heap.table.at].elems[i].search,
                               seen |-> DerefList(heap.obj, heap.obj[heap.table.at].elems[i].search),
                               gen |-> Len(heap.pub) ])]
    /\ UNCHANGED <<pakVars, rdVars, config, disk, searchPaths, dirCache, mutex, reload, sig, reqs, hist>>

InitHeap ==
    /\ IdleWriter /\ arc = EmptyImage /\ rd = NotRead /\ ext = NoExtract
    /\ \E white \in { <<>>, << routeAll >> },
          sa \in { << dirF, dirE >>, << dirE >> } :
          /\ config = [ SearchPaths |-> << [Match |-> routeAll, Search |-> << dirE >>],
                                           [Match |-> routeA, Search |-> sa] >>,
                        PakBlackList |-> <<>>, DirWhiteList |-> white,
                        RefererCheck |-> anyString, ContentType |-> "application/octet-stream" ]
          /\ disk = (dirE :> [ ok |-> TRUE, names |-> << zPkz, pak0 >>, tree |-> <<>>,
                                file |-> (pak0 :> EmptyPak) @@ (zPkz :> GateZip(<< << 115 >> >>)) ])
                    @@ (dirF :> [ ok |-> TRUE, names |-> << custom >>, tree |-> <<>>,
                                  file |-> (custom :> EmptyPak) ])
    /\ searchPaths = <<>> /\ dirCache = <<>>
    /\ mutex = [w |-> FALSE, r |-> 0, waiting |-> FALSE]
    /\ reload = [pc |-> "off", owed |-> FALSE, heard |-> FALSE, dropped |-> FALSE]
    /\ sig = 0 /\ reqs = <<>> /\ hist = <<>>
    /\ heap = [NoHeap EXCEPT !.pc = "idle"]

NextHeap ==
    \/ Len(heap.pub) < MaxScans /\ HeapReset
    \/ HeapScanRoute
    \/ HeapPublish
    \/ \E i \in 1..MaxRoutes : HeapLookup(i)
    \/ \E k \in 1..Len(disk[dirE].names) : heap.pc = "idle" /\ Unlink(dirE, disk[dirE].names[k])
    \/ heap.pc = "idle" /\ Detach(dirF)

SpecHeap == InitHeap /\ [][NextHeap]_vars

\* C24: the list a handler got from findSearchPath holds the same stores with
\* the same entries at every later time, and so does every table that was
\* published, while and after later scans run.
C24_Immutable ==
    /\ \A k \in 1..Len(heap.held) :
          DerefList(heap.obj, heap.held[k].search) = heap.held[k].seen
    /\ \A g \in 1..Len(heap.pub) :
          DerefTable(heap.obj, heap.pub[g].table) = heap.pub[g].value

\* a handler holds a list of the first table while the second scan has
\* built a different list for the same route
C24_Witness ==
    /\ heap.pc = "scan"
    /\ Len(heap.pub) = 1
    /\ heap.table.len = Len(config.SearchPaths)
    /\ \E k \in 1..Len(heap.held) :
          /\ heap.held[k].gen = 1
          /\ heap.held[k].seen # <<>>
          /\ \E i \in 1..heap.table.len :
                /\ heap.held[k].seen = heap.pub[1].value[i].search
                /\ DerefTable(heap.obj, heap.table)[i].search # heap.held[k].seen

(***************************************************************************)
(* The files a handler opens and closes, for transfers that end and        *)
(* transfers that fail.                                                    *)
(***************************************************************************)
\* Write to the client fails after n bytes of the body: io.Copy or
\* http.ServeContent returns, the file is closed and the handler returns
ServeAbort(id, n) ==
    /\ reqs[id].pc = "sending"
    /\ reload.pc # "exited"
    /\ n < Len(reqs[id].resp.body)
    /\ reqs' = [reqs EXCEPT ![id].pc = "done",
                            ![id].resp = Return([@ EXCEPT !.body = SubSeq(@, 1, n)])]
    /\ UNCHANGED <<pakVars, rdVars, heap, config, disk, searchPaths, dirCache, mutex, reload, sig, hist>>

\* q/z.pkz holds s, stored, and d, deflated, whose stream is whole or cut
\* short; e/z.pkz holds s; the tree of e is empty or has the file d, the
\* file s or a directory s
InitRelease ==
    /\ IdleWriter /\ arc = EmptyImage /\ rd = NotRead /\ ext = NoExtract
    /\ \E order \in { << dirQ, dirE >>, << dirE, dirQ >> },
          white \in { <<>>, << anyString >> },
          csize \in { Wide(Len(streamD)), Wide(3) },
          te \in { <<>>, << 100 >> :> FileNode(<< 7, 7 >>), << 115 >> :> FileNode(<< 7 >>) }
                 \cup { << 115 >> :> n : n \in DirNodes } :
          Started([ SearchPaths |-> << [Match |-> routeAll, Search |-> order] >>,
                    PakBlackList |-> <<>>, DirWhiteList |-> white,
                    RefererCheck |-> anyString, ContentType |-> "application/octet-stream" ],
                  (dirQ :> [ ok |-> TRUE, names |-> << zPkz >>, tree |-> <<>>,
                             file |-> (zPkz :> ZipOf(8, csize, Wide(3), Wide(0))) ])
                  @@ (dirE :> [ ok |-> TRUE, names |-> << zPkz >>, tree |-> te,
                                file |-> (zPkz :> GateZip(<< << 115 >> >>)) ]))

\* one request in a behaviour
NextRelease ==
    \/ \E m \in {"GET", "HEAD"}, p \in { << 47, 115 >>, << 47, 100 >>, << 47, 120 >> },
          a \in { <<>>, << encGzip >> } : reqs = <<>> /\ Arrive(m, p, a, <<>>)
    \/ \E d \in DOMAIN disk : reqs = <<>> /\ Unlink(d, zPkz)
    \/ \E id \in 1..Len(reqs) : Lookup(id)
    \/ \E id \in 1..Len(reqs) : ServeOpen(id)
    \/ \E id \in 1..Len(reqs) : ServeDone(id)
    \/ \E id \in 1..Len(reqs) : \E n \in 0..Len(reqs[id].resp.body) : ServeAbort(id, n)

SpecRelease == InitRelease /\ [][NextRelease]_vars

\* the files rq has opened that are archives of its store list, and those
\* that are not: files of a directory store
ArchiveHandles(rq) ==
    { o \in 1..Len(rq.resp.opened) :
        \E k \in 1..Len(rq.search.list) :
            ~rq.search.list[k].isDir /\ rq.search.list[k].path = rq.resp.opened[o] }

DirHandles(rq) == (1..Len(rq.resp.opened)) \ ArchiveHandles(rq)

\* C25: a request opens at most one archive file and at most one file of a
\* directory store, and when its handler has returned every file it opened
\* is closed, whether the transfer ended, had no body, or failed; no file is
\* closed that was not opened.
C25_Release ==
    \A id \in 1..Len(reqs) :
        /\ Cardinality(ArchiveHandles(reqs[id])) <= 1
        /\ Cardinality(DirHandles(reqs[id])) <= 1
        /\ reqs[id].resp.closed \in { <<>>, reqs[id].resp.opened }
        /\ reqs[id].pc = "done" => reqs[id].resp.closed = reqs[id].resp.opened

\* a GET whose transfer from an archive failed before the last byte: the
\* handler has returned and the archive file is closed
C25_Witness ==
    \E id \in 1..Len(reqs) :
        /\ reqs[id].pc = "done" /\ reqs[id].Method = "GET"
        /\ Cardinality(ArchiveHandles(reqs[id])) = 1
        /\ reqs[id].resp.closed = reqs[id].resp.opened
        /\ Len(reqs[id].resp.body) < Len(Respond(config, disk, reqs[id]).body)

(***************************************************************************)
(* dirCache during the builds of SpecReload, where archives are removed    *)
(* between the scans of two routes.                                        *)
(***************************************************************************)
\* the stores of the list sp that belong to directory d
Segment(sp, d) ==
    SelectSeq(sp, LAMBDA st : st.path = d \/ HasPrefix(st.path, d \o << 47 >>))

\* C26: a route's list holds for each of its directories what dirCache held
\* for it when the route was scanned, or, when the build had not scanned the
\* directory yet, the result of scanning it then, which the cache keeps; so
\* in every table two routes have the same stores for the same directory; a
\* build begins with an empty cache.
C26_ScanCache ==
    /\ []((reload.pc = "scan" /\ searchPaths = <<>>) => dirCache = <<>>)
    /\ [][ (reload.pc = "scan" /\ Len(searchPaths') = Len(searchPaths) + 1) =>
             \A k \in 1..Len(config.SearchPaths[Len(searchPaths')].Search) :
                LET d == config.SearchPaths[Len(searchPaths')].Search[k]
                    got == Segment(searchPaths'[Len(searchPaths')].search, d)
                IN  /\ got = IF d \in DOMAIN dirCache THEN dirCache[d]
                             ELSE scandir(<<>>, disk, Len(config.DirWhiteList) > 0, d).sp
                    /\ d \in DOMAIN dirCache' /\ dirCache'[d] = got ]_vars
    /\ [](\A t \in 1..Len(hist) : \A i, j \in 1..Len(hist[t]) :
             \A k \in 1..Len(config.SearchPaths[i].Search) :
                (\E l \in 1..Len(config.SearchPaths[j].Search) :
                    config.SearchPaths[j].Search[l] = config.SearchPaths[i].Search[k])
                => Segment(hist[t][i].search, config.SearchPaths[i].Search[k])
                     = Segment(hist[t][j].search, config.SearchPaths[i].Search[k]))

\* the second build has scanned both routes; the second route has for e the
\* list the cache holds, which is no longer what a scan of e would give
C26_Witness ==
    /\ reload.pc = "scan" /\ Len(hist) = 1
    /\ Len(searchPaths) = 2
    /\ \E l \in 1..Len(config.SearchPaths[2].Search) : config.SearchPaths[2].Search[l] = dirE
    /\ dirE \in DOMAIN dirCache
    /\ Segment(searchPaths[2].search, dirE) = dirCache[dirE]
    /\ Segment(searchPaths[1].search, dirE) = dirCache[dirE]
    /\ dirCache[dirE] # scandir(<<>>, disk, Len(config.DirWhiteList) > 0, dirE).sp

(***************************************************************************)
(* The shape of the store lists in the tables of SpecScanFail.             *)
(***************************************************************************)
\* the places in dirs of the directory that the store st belongs to
DirIndex(dirs, st) ==
    { k \in 1..Len(dirs) : st.path = dirs[k] \/ HasPrefix(st.path, dirs[k] \o << 47 >>) }

\* the list sp of a route that searches dirs, no directory twice, has the
\* shape the scan gives it
ListShape(sp, dirs) ==
    /\ \A a \in 1..Len(sp) : Cardinality(DirIndex(dirs, sp[a])) = 1
    /\ \A a, b \in 1..Len(sp) :
          a < b => \A k \in DirIndex(dirs, sp[a]) : \A l \in DirIndex(dirs, sp[b]) :
                      /\ k <= l
                      /\ k = l => ~sp[a].isDir
    /\ \A k \in 1..Len(dirs) :
          /\ Cardinality({ a \in 1..Len(sp) : sp[a].isDir /\ sp[a].path = dirs[k] })
                = IF Len(config.DirWhiteList) > 0 THEN 1 ELSE 0
          /\ (Len(config.DirWhiteList) = 0 /\ ScansWell(dirs[k]) = {})
                => Segment(sp, dirs[k]) = <<>>

OutHeader == HeaderOf(w.img)

\* C28: the first entry starts at offset 12 and every later entry where the
\* entry before it ends, its length being the bytes the underlying writer
\* accepted for it; the cursor is 12 plus all content bytes accepted, short
\* writes included, and is where the content of the output ends; when Close
\* has succeeded the last entry ends at the cursor, the header holds the
\* cursor as dirOffset and 64 times the number of entries as dirLength, and
\* their sum is at most 2^31-1.
C28_Layout ==
    /\ Len(files) > 0 => files[1].Filepos = Wide(headerSize)
    /\ \A k \in 1..(Len(files) - 1) :
          /\ files[k + 1].Filepos = WAdd(files[k].Filepos, files[k].Filelen)
          /\ files[k].Filelen = Wide(RunsLen(want[k].data))
    /\ Len(files) > 0 =>
          Wide(offset) = WAdd(files[Len(files)].Filepos, Wide(RunsLen(want[Len(files)].data)))
    /\ offset = headerSize + RunsLen(w.img.body)
    /\ (ret.op = "Close" /\ ret.err = nil) =>
          /\ Len(files) > 0 =>
                WAdd(files[Len(files)].Filepos, files[Len(files)].Filelen) = Wide(offset)
          /\ OutHeader.Dirofs = Wide(offset)
          /\ OutHeader.Dirlen = Wide(entrySize * Len(files))
          /\ offset <= MaxOffset - entrySize * Len(files)
          /\ w.img.dir = files

\* Close succeeded after two entries with content, the first of which met a
\* short write
C28_Witness ==
    /\ ret.op = "Close" /\ ret.err = nil
    /\ Len(files) = 2
    /\ RunsLen(want[1].data) > 0
    /\ WLess(Wide(RunsLen(want[1].data)), ChunksLen(want[1].asked))
    /\ RunsLen(want[2].data) > 0

(***************************************************************************)
(* The comparator of scandir on pak-prefixed names with and without a      *)
(* number.                                                                 *)
(***************************************************************************)
\* pakz2.pak, paka10.pak, pakm.pak
pakz2 == << 112, 97, 107, 122, 50, 46, 112, 97, 107 >>

paka10 == << 112, 97, 107, 97, 49, 48, 46, 112, 97, 107 >>

pakm == << 112, 97, 107, 109, 46, 112, 97, 107 >>

OrderNames == { pakz2, paka10, pakm, pak2, zzz }

\* the listings of at most MaxNames of them
OrderListings ==
    UNION { { l \in [1..n -> OrderNames] : \A i, j \in 1..n : l[i] = l[j] => i = j } :
              n \in 0..MaxNames }

InitOrder ==
    /\ IdleWriter /\ arc = EmptyImage /\ rd = NotRead /\ ext = NoExtract
    /\ \E l \in OrderListings :
          /\ config = [ SearchPaths |-> << [Match |-> routeAll, Search |-> << dirQ >>] >>,
                        PakBlackList |-> <<>>, DirWhiteList |-> <<>>,
                        RefererCheck |-> anyString, ContentType |-> "application/octet-stream" ]
          /\ disk = (dirQ :> [ ok |-> TRUE, names |-> l, tree |-> <<>>,
                                file |-> [n \in OrderNames |-> FileFor(n)] ])
    /\ searchPaths = <<>> /\ dirCache = <<>>
    /\ mutex = [w |-> FALSE, r |-> 0, waiting |-> FALSE]
    /\ reload = [pc |-> "start", owed |-> FALSE, heard |-> FALSE, dropped |-> FALSE]
    /\ sig = 0 /\ reqs = <<>> /\ hist = <<>> /\ heap = NoHeap

SpecOrder == InitOrder /\ [][NextScanDir]_vars

\* less(i, j) of the comparator for a slice that holds x at i and y at j
Before(x, y) == lessPak(<< x, y >>, 1, 2)

\* neither is before the other
Tied(x, y) == ~Before(x, y) /\ ~Before(y, x)

\* the names of the listing that scandir sorts
Sorted == { PakNames(disk[dirQ].names)[i] : i \in 1..Len(PakNames(disk[dirQ].names)) }

\* C29: on the archive names of a directory the comparator is irreflexive,
\* asymmetric and transitive, being tied is transitive, and so sorting gives
\* the same order for every order of the listing, in every scan.
C29_StrictWeakOrder ==
    /\ \A x \in Sorted : ~Before(x, x)
    /\ \A x, y \in Sorted : Before(x, y) => ~Before(y, x)
    /\ \A x, y, z \in Sorted : (Before(x, y) /\ Before(y, z)) => Before(x, z)
    /\ \A x, y, z \in Sorted : (Tied(x, y) /\ Tied(y, z)) => Tied(x, z)
    /\ \A names \in Reorderings(disk[dirQ].names) :
          sortSlice(PakNames(names)) = sortSlice(PakNames(disk[dirQ].names))
    /\ \A k \in 1..Len(hist) : hist[k] = hist[1]

(***************************************************************************)
(* The output of a Writer before and after Close, read with the Reader.    *)
(***************************************************************************)
\* the identifier field of the output is still as NewWriter wrote it
IdentZero == SubSeq(w.img.hdr, 1, 4) = << 0, 0, 0, 0 >>

\* finish returns before binary.Write of the header: the directory would end
\* beyond MaxOffset, or the write of the directory or the Seek fails
BeforeHeader(f) == DirTooFar(offset, entrySize * Len(files)) \/ f.at \in {"dir", "seek"}

\* a call of Close on an open Writer that fails before the header is written
ClosedEarly == \E f \in CloseFaults : ~closed /\ Close(f) /\ BeforeHeader(f)

\* C30 as stated: until Close is called, and after a Close that fails before
\* the header is written, the first four bytes of the output are zero and the
\* Reader fails with bad ident; the output reads only once the Writer is closed,
\* and the Close that closed it returned no error.
C30_OnlySuccessfulClose ==
    /\ [](~closed => (IdentZero /\ ReadBack.err = errBadIdent))
    /\ [][ClosedEarly => (ret'.err # nil /\ IdentZero' /\ ReadBack'.err = errBadIdent)]_vars
    /\ [](ReadBack.err = nil => closed)
    /\ []((ret.op = "Close" /\ ret.err # errAlreadyClosed /\ ReadBack.err = nil) => ret.err = nil)

\* C30: until Close is called, and after a Close that fails before the header
\* is written, the first four bytes of the output are zero and the Reader
\* fails with bad ident; the output becomes readable only in a Close that gets
\* as far as writing the header: an output that reads belongs to a closed
\* Writer and has its identifier, and nothing is written after Close.
C30_Unfinished ==
    /\ [](~closed => (IdentZero /\ ReadBack.err = errBadIdent))
    /\ [][ClosedEarly => (ret'.err # nil /\ IdentZero' /\ ReadBack'.err = errBadIdent)]_vars
    /\ [](ReadBack.err = nil => (closed /\ ~IdentZero))
    /\ [][closed => (closed' /\ w' = w)]_vars

\* content was written, Close failed because the directory would end beyond
\* MaxOffset, and the output does not read
C30_Witness ==
    /\ ret.op = "Close" /\ ret.err = errBadDirOfs
    /\ Len(files) > 0 /\ offset > headerSize
    /\ IdentZero /\ ReadBack.err = errBadIdent

(***************************************************************************)
(* The file a directory store opens for the path that findSearchPath       *)
(* returns.                                                                *)
(***************************************************************************)
\* file is the directory root or lies below it
Under(root, file) == file = root \/ HasPrefix(file, Append(root, 47))

\* the handler goes on to the stores with the result of the lookup
Searches(rq) == rq.pc = "found" /\ rq.search.ok /\ rq.path # <<>>

\* C31: the asset path that route resolution returns never begins with '/'
\* and has no ".." segment, whatever the anchored patterns are, and the file
\* that a directory store opens for it lies under the root of the store.
C31_Containment ==
    \A id \in 1..Len(reqs) :
        Searches(reqs[id]) =>
            /\ reqs[id].path[1] # 47
            /\ << 46, 46 >> \notin Segments(reqs[id].path, <<>>)
            /\ \A k \in 1..Len(reqs[id].search.list) :
                  reqs[id].search.list[k].isDir =>
                      Under(reqs[id].search.list[k].path,
                            Join(reqs[id].search.list[k].path, reqs[id].path))

(***************************************************************************)
(* Routes whose pattern matches the empty string at offset 0.              *)
(***************************************************************************)
\* ^   (empty pattern)   ^/a/   ^/
ZeroPatterns ==
    { [anchored |-> TRUE, alts |-> << <<>> >>], anyString, routeA, routeAll }

\* /s   /a/s   /S   /
ZeroPaths == { << 47, 115 >>, << 47, 97, 47, 115 >>, << 47, 83 >>, << 47 >> }

\* every directory holds the file s, or nothing
InitZero ==
    /\ IdleWriter /\ arc = EmptyImage /\ rd = NotRead /\ ext = NoExtract
    /\ \E n \in 1..MaxRoutes : \E pats \in [1..n -> ZeroPatterns] :
       \E tree \in { <<>>, << 115 >> :> FileNode(<< 7 >>) } :
          Started([ SearchPaths |-> [i \in 1..n |-> [Match |-> pats[i], Search |-> << RouteDir(i) >>]],
                    PakBlackList |-> <<>>, DirWhiteList |-> << anyString >>,
                    RefererCheck |-> anyString, ContentType |-> "application/octet-stream" ],
                  [d \in {RouteDir(i) : i \in 1..n} |->
                      [ok |-> TRUE, names |-> <<>>, tree |-> tree, file |-> <<>>]])

NextZero ==
    \/ \E p \in ZeroPaths : reqs = <<>> /\ Arrive("GET", p, <<>>, <<>>)
    \/ \E id \in 1..Len(reqs) : Handle(id)

SpecZero == InitZero /\ [][NextZero]_vars

\* the routes whose match at offset 0 of the lookup path is not empty
LongMatching(table, str) == { i \in Matching(table, str) : MatchEnd(table[i], str) > 0 }

\* what the handler answers to rq when no route is configured
Unrouted(rq) ==
    LET r == findSearchPath(<<>>, rq.Path)
    IN  Return(Respond(config, disk, [rq EXCEPT !.search = r.search, !.path = r.path]))

\* C32: a route is chosen only if its match at offset 0 ends after offset 0;
\* when every route that matches does so with length zero, no route is chosen
\* and the answer is not-found, the one given when no route matches, although
\* the path that remains is not empty.
C32_ZeroLengthMatch ==
    \A id \in 1..Len(reqs) :
        reqs[id].pc = "done" =>
            /\ reqs[id].search.ok =>
                  /\ reqs[id].longest > 0
                  /\ \E i \in LongMatching(searchPaths, reqs[id].Path) :
                        Resolved(reqs[id], searchPaths, i)
            /\ LongMatching(searchPaths, reqs[id].Path) = {} =>
                  /\ ~reqs[id].search.ok
                  /\ reqs[id].path = LookupPath(reqs[id].Path) /\ reqs[id].path # <<>>
                  /\ reqs[id].resp = Unrouted(reqs[id])
                  /\ reqs[id].resp.status = 404 /\ reqs[id].resp.opened = <<>>

\* GET /s under routes that all match with length zero, searching a directory
\* that holds s, was answered not-found
C32_Witness ==
    \E id \in 1..Len(reqs) :
        /\ reqs[id].pc = "done" /\ reqs[id].Path = << 47, 115 >>
        /\ Matching(searchPaths, reqs[id].Path) = 1..Len(searchPaths)
        /\ LongMatching(searchPaths, reqs[id].Path) = {}
        /\ \A i \in 1..Len(searchPaths) :
              << 115 >> \in DOMAIN disk[searchPaths[i].search[1].path].tree
        /\ reqs[id].resp.status = 404

(***************************************************************************)
(* pakutil -x <pak> <dir>: extract.                                        *)
(***************************************************************************)
\* filepath.Dir(path) on a '/' platform
RECURSIVE DirName(_)
DirName(path) ==
    IF path = <<>> THEN << 46 >>
    ELSE IF path[Len(path)] = 47 THEN Clean(path)
    ELSE DirName(SubSeq(path, 1, Len(path) - 1))

\* pak.OpenReader(args[0]); log.Fatal when it fails
ExtractOpen ==
    /\ ext.pc = "start"
    /\ \E r \in { ReaderInit(arc, ImgSize(arc)) } :
          /\ rd' = [pak |-> r, size |-> ImgSize(arc)]
          /\ ext' = [ext EXCEPT !.pc = IF r.err # nil THEN "exited" ELSE "loop", !.i = 1]
    /\ UNCHANGED <<pakVars, arc, srvVars>>

\* one iteration of the loop over pak.File, or its end; fail is the call of
\* the iteration that returns an error
ExtractStep(fail) ==
    /\ ext.pc = "loop"
    /\ IF ext.i > Len(rd.pak.File)
       THEN ext' = [ext EXCEPT !.pc = "done"]
       ELSE \E rel \in { pakToFs(rd.pak.File[ext.i].Name) } :
            IF Len(rel) < 1
            THEN ext' = [ext EXCEPT !.i = @ + 1, !.skipped = Append(@, ext.i)]
            ELSE \E path \in { Join(ext.dir, rel) } :
                 ext' = [ext EXCEPT
                           !.pc = IF fail = "none" THEN "loop" ELSE "exited",
                           !.i = IF fail = "none" THEN @ + 1 ELSE @,
                           !.dirs = IF fail = "mkdir" THEN @ ELSE Append(@, DirName(path)),
                           !.made = IF fail \in {"mkdir", "create"} THEN @
                                    ELSE Append(@, [at |-> ext.i, path |-> path])]
    /\ UNCHANGED <<pakVars, arc, rd, srvVars>>

\* ..\A   /a   a/../..   A/./a   ..   (empty)
ListedNames ==
    { << 46, 46, 92, 65 >>, << 47, 97 >>, << 97, 47, 46, 46, 47, 46, 46 >>,
      << 65, 47, 46, 47, 97 >>, << 46, 46 >>, <<>> }

\* the directories of the records of one entry with any of EntryNames, and of
\* MaxDir entries with names of ListedNames
ExtractDirs ==
    { << [Name |-> n, Filepos |-> Wide(headerSize), Filelen |-> Wide(0)] >> : n \in EntryNames }
    \cup { [i \in 1..MaxDir |-> [Name |-> l[i], Filepos |-> Wide(headerSize), Filelen |-> Wide(0)]] :
             l \in [1..MaxDir -> ListedNames] }

\* t   /o/u/
Targets == { << 116 >>, << 47, 111, 47, 117, 47 >> }

InitExtract ==
    /\ IdleWriter /\ IdleServer /\ rd = NotRead
    /\ \E dir \in ExtractDirs, id \in Idents, t \in Targets :
          /\ (id # pakIdent => Len(dir) = MaxDir /\ t = << 116 >>)
          /\ arc = MkArchive(id, Wide(headerSize), Wide(entrySize * Len(dir)), 0, dir)
          /\ ext = [NoExtract EXCEPT !.pc = "start", !.dir = t]

NextExtract ==
    \/ ExtractOpen
    \/ \E fail \in {"none", "mkdir", "create", "copy"} : ExtractStep(fail)

SpecExtract == InitExtract /\ [][NextExtract]_vars

\* the names that remain of the elements of a rooted path when "" and "." are
\* dropped and ".." takes back the one before it, if any
RECURSIVE Walk(_, _, _)
Walk(str, seg, stack) ==
    LET put == IF seg \in { <<>>, << 46 >> } THEN stack
               ELSE IF seg = << 46, 46 >> THEN SubSeq(stack, 1, Len(stack) - 1)
               ELSE Append(stack, seg)
    IN  IF str = <<>> THEN put
        ELSE IF str[1] = 47 THEN Walk(Tail(str), <<>>, put)
        ELSE Walk(Tail(str), Append(seg, str[1]), stack)

RECURSIVE Joined(_)
Joined(stack) ==
    IF stack = <<>> THEN <<>>
    ELSE IF Len(stack) = 1 THEN stack[1]
    ELSE stack[1] \o << 47 >> \o Joined(Tail(stack))

\* the cleaned, lowercased, root-relative form of an entry name
RootRelative(name) == ToLower(Joined(Walk(Slashed(name), <<>>, <<>>)))

\* the entries that extract is done with
Extracted == 1..(IF ext.pc \in {"loop", "done"} THEN ext.i - 1 ELSE 0)

\* C33: every file that extract creates is at the target directory joined
\* with the cleaned, lowercased, root-relative form of the name of its entry,
\* which has no ".." segment, and so lies under the target directory; an
\* entry whose cleaned name is empty is skipped and no file is created for it.
C33_ExtractInside ==
    /\ \A k \in 1..Len(ext.made) :
          LET rel == RootRelative(rd.pak.File[ext.made[k].at].Name)
          IN  /\ rel # <<>> /\ rel[1] # 47
              /\ Segments(rel, <<>>) \cap { <<>>, << 46 >>, << 46, 46 >> } = {}
              /\ \A i \in 1..Len(rel) : rel[i] # 92 /\ ~(rel[i] >= 65 /\ rel[i] <= 90)
              /\ ext.made[k].path = Clean(ext.dir) \o << 47 >> \o rel
              /\ Under(Clean(ext.dir), ext.made[k].path)
    /\ \A k \in 1..Len(ext.dirs) : Under(Clean(ext.dir), ext.dirs[k])
    /\ \A i \in Extracted :
          IF RootRelative(rd.pak.File[i].Name) = <<>>
          THEN /\ \E k \in 1..Len(ext.skipped) : ext.skipped[k] = i
               /\ \A k \in 1..Len(ext.made) : ext.made[k].at # i
          ELSE /\ \E k \in 1..Len(ext.made) : ext.made[k].at = i
               /\ \A k \in 1..Len(ext.skipped) : ext.skipped[k] # i

\* the archive holds ..\A and an entry whose cleaned name is empty: extract
\* has ended, made t/a and skipped the other
C33_Witness ==
    /\ ext.pc = "done" /\ ext.dir = << 116 >>
    /\ Len(rd.pak.File) = MaxDir
    /\ \E k \in 1..Len(ext.made) :
          /\ rd.pak.File[ext.made[k].at].Name = << 46, 46, 92, 65 >>
          /\ ext.made[k].path = << 116, 47, 97 >>
    /\ \E k \in 1..Len(ext.skipped) : rd.pak.File[ext.skipped[k]].Name = << 46, 46 >>

====
